---- MODULE Spec2Model ----
(***************************************************************************)
(* GAB Study: the review scheduler (logic/reviewScheduler), the session    *)
(* picker (logic/sessionPicker) and the answer handlers of the question    *)
(* screen and the test session screen that store their results.            *)
(*                                                                         *)
(* Time is counted in whole hours since 00:00 UTC of 1 January EpochYear;  *)
(* a Date is that count.  An ISO string (Date.toISOString) is the tuple    *)
(* <<year, month, date, hour>> of its UTC fields, compared field by field  *)
(* as String.localeCompare compares two strings of that fixed layout.      *)
(***************************************************************************)
EXTENDS Integers, Sequences, FiniteSets, TLC

VARIABLES
    tz,         \* the device's time zone (environment of Date's local fields)
    clock,      \* the device clock: the value of new Date() / Date.now()
    item,       \* scheduler argument: currentItem (a ReviewQueueItem or Null)
    schedOut,   \* the last scheduler call and what it returned, or Null
    targetSeconds,  \* picker argument: the session's target duration
    allProblems,    \* picker argument: the catalog, a sequence of Problems
    latestAttempts, \* picker argument: Map problem id -> its latest Attempt
    dueReviews,     \* picker argument: the due ReviewQueueItems
    pickOut,        \* the last picker call and what it returned, or Null
    attemptsTable,  \* table attempts: its rows, in rowid order
    reviewQueue,    \* table review_queue: problemId -> row
    sessionTable,   \* table session_state: its rows, in rowid order
    testResults,    \* table test_results: its rows, in rowid order
    dbFailed,       \* the statements the storage rejected in the last handler
    route,          \* the screen on top of the navigation stack
    home,           \* HomeScreen state
    question,       \* QuestionScreen state
    test            \* TestSessionScreen state

schedVars == <<tz, clock, item, schedOut>>
pickVars == <<targetSeconds, allProblems, latestAttempts, dueReviews, pickOut>>
dbVars == <<attemptsTable, reviewQueue, sessionTable, testResults, dbFailed>>
appVars == <<dbVars, route, home, question, test>>
vars == <<schedVars, pickVars, appVars>>

Null == [null |-> TRUE]

-----------------------------------------------------------------------------
(* Bounds of the model *)

EpochYear == 2028
MaxDay == 365
MaxStage == 10
MaxProblems == 3
MaxTicks == 2

HoursOfDay == {0, 1, 23}

-----------------------------------------------------------------------------
(* Date: calendar fields, local time and ISO strings *)

HoursPerDay == 24

IsLeapYear(y) == (y % 4 = 0) /\ ((y % 100 # 0) \/ (y % 400 = 0))

DaysInYear(y) == IF IsLeapYear(y) THEN 366 ELSE 365

DaysInMonth(y, m) ==
    IF m = 2 THEN (IF IsLeapYear(y) THEN 29 ELSE 28)
    ELSE IF m \in {4, 6, 9, 11} THEN 30 ELSE 31

RECURSIVE DayFromYear(_)
DayFromYear(y) == IF y <= EpochYear THEN 0 ELSE DayFromYear(y - 1) + DaysInYear(y - 1)

RECURSIVE YearFromDay(_, _)
YearFromDay(y, day) ==
    IF day < DayFromYear(y + 1) THEN y ELSE YearFromDay(y + 1, day)

RECURSIVE DaysBeforeMonth(_, _)
DaysBeforeMonth(y, m) ==
    IF m <= 1 THEN 0 ELSE DaysBeforeMonth(y, m - 1) + DaysInMonth(y, m - 1)

RECURSIVE MonthFromDayInYear(_, _, _)
MonthFromDayInYear(y, m, dayInYear) ==
    IF dayInYear < DaysBeforeMonth(y, m + 1) THEN m
    ELSE MonthFromDayInYear(y, m + 1, dayInYear)

Day(t) == t \div HoursPerDay
HourFromTime(t) == t % HoursPerDay
YearFromTime(t) == YearFromDay(EpochYear, Day(t))
DayWithinYear(t) == Day(t) - DayFromYear(YearFromTime(t))
MonthFromTime(t) == MonthFromDayInYear(YearFromTime(t), 1, DayWithinYear(t))
DateFromTime(t) ==
    DayWithinYear(t) - DaysBeforeMonth(YearFromTime(t), MonthFromTime(t)) + 1

\* MakeDay: a date past the end of the month runs on into the following months
MakeDay(y, m, date) == DayFromYear(y) + DaysBeforeMonth(y, m) + date - 1

MakeDate(day, hour) == day * HoursPerDay + hour

\* Time zones: standard offset in hours and, for a zone with daylight saving,
\* the UTC instants between which local time is one hour ahead
TimeZones == {
    [name |-> "UTC", offset |-> 0, dst |-> FALSE, dstFrom |-> 0, dstTo |-> 0],
    [name |-> "Asia/Tokyo", offset |-> 9, dst |-> FALSE, dstFrom |-> 0, dstTo |-> 0],
    [name |-> "Europe/Berlin", offset |-> 1, dst |-> TRUE,
     dstFrom |-> MakeDate(MakeDay(EpochYear, 3, 26), 1),
     dstTo |-> MakeDate(MakeDay(EpochYear, 10, 29), 1)] }

LocalOffset(zone, t) ==
    zone.offset + (IF zone.dst /\ zone.dstFrom <= t /\ t < zone.dstTo THEN 1 ELSE 0)

LocalTime(zone, t) == t + LocalOffset(zone, t)

\* UTC(local): of two instants that read the same local time the earlier one;
\* a local time skipped by the clock change is read with the offset before it
UTC(zone, local) ==
    LET early == local - zone.offset - 1
        late  == local - zone.offset
    IN  IF LocalTime(zone, early) = local THEN early ELSE late

getDate(zone, t) == DateFromTime(LocalTime(zone, t))

setDate(zone, t, date) ==
    LET local == LocalTime(zone, t)
        day   == MakeDay(YearFromTime(local), MonthFromTime(local), date)
    IN  UTC(zone, MakeDate(day, HourFromTime(local)))

toISOString(t) ==
    <<YearFromTime(t), MonthFromTime(t), DateFromTime(t), HourFromTime(t)>>

\* new Date(isoString)
DateParse(s) == MakeDate(MakeDay(s[1], s[2], s[3]), s[4])

\* the local calendar day (days since the epoch) an instant falls on
LocalDay(zone, t) == Day(LocalTime(zone, t))

-----------------------------------------------------------------------------
(* reviewScheduler *)

REVIEW_INTERVALS_DAYS == <<1, 3, 7, 14, 30>>

Max(a, b) == IF a >= b THEN a ELSE b
Min(a, b) == IF a <= b THEN a ELSE b

\* currentItem?.stage ?? 0
currentStageOf(currentItem) == IF currentItem = Null THEN 0 ELSE currentItem.stage

newStageOf_NoFloor(isCorrect, currentItem) ==
    IF isCorrect THEN currentStageOf(currentItem) + 1
    ELSE currentStageOf(currentItem) - 1

newStageOf(isCorrect, currentItem) ==
    IF isCorrect THEN currentStageOf(currentItem) + 1
    ELSE Max(currentStageOf(currentItem) - 1, 0)

intervalIndex_NoClamp(newStage) == newStage

\* Math.min(newStage, REVIEW_INTERVALS_DAYS.length - 1), 0-based
intervalIndex(newStage) == Min(newStage, Len(REVIEW_INTERVALS_DAYS) - 1)

\* REVIEW_INTERVALS_DAYS[index] with the 0-based index of the source; an
\* index outside the array reads undefined
InTable(index) == index \in 0..(Len(REVIEW_INTERVALS_DAYS) - 1)

intervalDaysAt(index) == REVIEW_INTERVALS_DAYS[index + 1]

\* toISOString of an invalid Date (setDate(undefined)) throws
RangeError == [error |-> "RangeError"]

computeNextReview_IntervalOfOldStage(zone, now, problemId, isCorrect, currentItem) ==
    LET newStage     == newStageOf(isCorrect, currentItem)
        index        == intervalIndex(currentStageOf(currentItem))
        intervalDays == intervalDaysAt(index)
        nextReview   == setDate(zone, now, getDate(zone, now) + intervalDays)
    IN  IF ~InTable(index) THEN RangeError
        ELSE [problemId |-> problemId,
              nextReviewAt |-> toISOString(nextReview),
              stage |-> newStage]

computeNextReview(zone, now, problemId, isCorrect, currentItem) ==
    LET newStage     == newStageOf(isCorrect, currentItem)
        index        == intervalIndex(newStage)
        intervalDays == intervalDaysAt(index)
        nextReview   == setDate(zone, now, getDate(zone, now) + intervalDays)
    IN  IF ~InTable(index) THEN RangeError
        ELSE [problemId |-> problemId,
              nextReviewAt |-> toISOString(nextReview),
              stage |-> newStage]

isReviewDue_Strict(reviewItem, now) == DateParse(reviewItem.nextReviewAt) < now

isReviewDue(reviewItem, now) == DateParse(reviewItem.nextReviewAt) <= now

-----------------------------------------------------------------------------
(* Scheduler calls on drawn arguments *)

\* the arguments of the other component, left alone
PickIdle ==
    /\ targetSeconds = 0
    /\ allProblems = <<>>
    /\ latestAttempts = <<>>
    /\ dueReviews = <<>>
    /\ pickOut = Null

NoChoice == 0 - 1

\* QuestionScreen and TestSessionScreen as first rendered (the useState
\* initial values), HomeScreen before its data is loaded
QuestionUnmounted ==
    [problems |-> <<>>, currentIndex |-> 0, selectedChoice |-> NoChoice,
     isConfirmed |-> FALSE, showExplanation |-> FALSE, sessionId |-> 0,
     timer |-> [elapsedMs |-> 0, isRunning |-> FALSE, accumulated |-> 0]]

TestUnmounted ==
    [problems |-> <<>>, currentIndex |-> 0, answers |-> <<>>,
     selectedChoice |-> NoChoice, pending |-> {},
     countdown |-> [isRunning |-> FALSE, expired |-> FALSE], timeUpAlert |-> FALSE]

HomeUnloaded == [activeSession |-> Null]

\* the application, not started: empty tables, the home screen
AppIdle ==
    /\ attemptsTable = <<>>
    /\ reviewQueue = <<>>
    /\ sessionTable = <<>>
    /\ testResults = <<>>
    /\ dbFailed = {}
    /\ route = "tabs"
    /\ home = HomeUnloaded
    /\ question = QuestionUnmounted
    /\ test = TestUnmounted

SchedIdle ==
    /\ tz \in { z \in TimeZones : z.name = "Asia/Tokyo" }
    /\ clock = 0
    /\ item = Null
    /\ schedOut = Null

ClockValues == { MakeDate(d, h) : d \in 0..MaxDay, h \in HoursOfDay }

InitSched ==
    /\ tz \in TimeZones
    /\ clock \in ClockValues
    /\ item \in {Null} \cup
          { [problemId |-> "q1", nextReviewAt |-> toISOString(clock + d), stage |-> s] :
              d \in {0 - 1, 0, 1}, s \in 0..MaxStage }
    /\ schedOut = Null
    /\ PickIdle
    /\ AppIdle

CallComputeNextReview ==
    /\ schedOut = Null
    /\ \E isCorrect \in BOOLEAN :
          schedOut' = [op |-> "computeNextReview", isCorrect |-> isCorrect,
                       result |-> computeNextReview(tz, clock, "q1", isCorrect, item)]
    /\ UNCHANGED <<tz, clock, item, pickVars, appVars>>

CallIsReviewDue ==
    /\ schedOut = Null
    /\ item # Null
    /\ schedOut' = [op |-> "isReviewDue", result |-> isReviewDue(item, clock)]
    /\ UNCHANGED <<tz, clock, item, pickVars, appVars>>

NextSched == CallComputeNextReview \/ CallIsReviewDue

SpecSched == InitSched /\ [][NextSched]_vars

-----------------------------------------------------------------------------
(* constants/categories *)

CATEGORIES == <<
    [id |-> "table", targetTimeSec |-> 55],
    [id |-> "bar", targetTimeSec |-> 45],
    [id |-> "pie", targetTimeSec |-> 40],
    [id |-> "composite", targetTimeSec |-> 55] >>

CategoryIds == { CATEGORIES[i].id : i \in DOMAIN CATEGORIES }

\* Object.fromEntries(CATEGORIES.map((c) => [c.id, c])): a later entry of the
\* same id replaces an earlier one
CATEGORY_MAP ==
    [c \in CategoryIds |->
        LET last == CHOOSE i \in DOMAIN CATEGORIES :
                        /\ CATEGORIES[i].id = c
                        /\ \A j \in DOMAIN CATEGORIES : CATEGORIES[j].id = c => j <= i
        IN  CATEGORIES[last]]

-----------------------------------------------------------------------------
(* sessionPicker *)

\* CATEGORY_MAP[category]?.targetTimeSec ?? 50
estimateSolveSeconds(category) ==
    IF category \in DOMAIN CATEGORY_MAP THEN CATEGORY_MAP[category].targetTimeSec ELSE 50

targetTimeForCategory(category) ==
    IF category \in DOMAIN CATEGORY_MAP THEN CATEGORY_MAP[category].targetTimeSec ELSE 50

\* String.localeCompare on two ISO strings, or on the empty string "" (<<>>)
\* that stands in for a missing one: negative, 0 or positive
RECURSIVE localeCompareFrom(_, _, _)
localeCompareFrom(s, t, i) ==
    IF i > Len(s) /\ i > Len(t) THEN 0
    ELSE IF i > Len(s) THEN 0 - 1
    ELSE IF i > Len(t) THEN 1
    ELSE IF s[i] < t[i] THEN 0 - 1
    ELSE IF s[i] > t[i] THEN 1
    ELSE localeCompareFrom(s, t, i + 1)

localeCompare(s, t) == localeCompareFrom(s, t, 1)

\* Array.prototype.sort with a comparator, given as cmp[a, b]: a stable sort.
\* InsertSorted puts x behind the last element that does not sort after it.
RECURSIVE InsertSorted(_, _, _)
InsertSorted(sorted, x, cmp) ==
    IF sorted = <<>> THEN <<x>>
    ELSE IF cmp[sorted[Len(sorted)], x] > 0
         THEN Append(InsertSorted(SubSeq(sorted, 1, Len(sorted) - 1), x, cmp),
                     sorted[Len(sorted)])
         ELSE Append(sorted, x)

RECURSIVE SortFrom(_, _, _, _)
SortFrom(seq, i, sorted, cmp) ==
    IF i > Len(seq) THEN sorted
    ELSE SortFrom(seq, i + 1, InsertSorted(sorted, seq[i], cmp), cmp)

sort(seq, cmp) == SortFrom(seq, 1, <<>>, cmp)

Range(seq) == { seq[i] : i \in DOMAIN seq }

\* dueReviews.find((r) => r.problemId === id), Null when there is none
find(reviews, id) ==
    IF \E i \in DOMAIN reviews : reviews[i].problemId = id
    THEN reviews[CHOOSE i \in DOMAIN reviews :
                    /\ reviews[i].problemId = id
                    /\ \A j \in 1..(i - 1) : reviews[j].problemId # id]
    ELSE Null

\* rA?.nextReviewAt ?? ""
nextReviewAtOrEmpty(r) == IF r = Null THEN <<>> ELSE r.nextReviewAt

\* pool 1: the problems with a due review, by nextReviewAt ascending
duePool(problems, reviews) ==
    LET dueSet == { reviews[i].problemId : i \in DOMAIN reviews }
        IsDue(p) == p.id \in dueSet
        cand == SelectSeq(problems, IsDue)
        cmp == [a \in Range(cand), b \in Range(cand) |->
                   localeCompare(nextReviewAtOrEmpty(find(reviews, a.id)),
                                 nextReviewAtOrEmpty(find(reviews, b.id)))]
    IN  sort(cand, cmp)

\* pool 2: latest attempt correct but over the category's target time, by
\* timeMs descending
slowPool(problems, attempts) ==
    LET IsSlow(p) ==
            /\ p.id \in DOMAIN attempts
            /\ attempts[p.id].isCorrect
            /\ attempts[p.id].timeMs > targetTimeForCategory(p.category) * 1000
        cand == SelectSeq(problems, IsSlow)
        cmp == [a \in Range(cand), b \in Range(cand) |->
                   attempts[b.id].timeMs - attempts[a.id].timeMs]
    IN  sort(cand, cmp)

wrongRecentPool_Ascending(problems, attempts) ==
    LET IsWrong(p) == p.id \in DOMAIN attempts /\ ~attempts[p.id].isCorrect
        cand == SelectSeq(problems, IsWrong)
        cmp == [a \in Range(cand), b \in Range(cand) |->
                   localeCompare(attempts[a.id].answeredAt, attempts[b.id].answeredAt)]
    IN  sort(cand, cmp)

\* pool 3: latest attempt incorrect, by answeredAt descending
wrongRecentPool(problems, attempts) ==
    LET IsWrong(p) == p.id \in DOMAIN attempts /\ ~attempts[p.id].isCorrect
        cand == SelectSeq(problems, IsWrong)
        cmp == [a \in Range(cand), b \in Range(cand) |->
                   localeCompare(attempts[b.id].answeredAt, attempts[a.id].answeredAt)]
    IN  sort(cand, cmp)

\* pool 4: no attempt, by difficulty ascending
unseenPool(problems, attempts) ==
    LET IsUnseen(p) == p.id \notin DOMAIN attempts
        cand == SelectSeq(problems, IsUnseen)
        cmp == [a \in Range(cand), b \in Range(cand) |-> a.difficulty - b.difficulty]
    IN  sort(cand, cmp)

pools_WrongBeforeSlow(problems, attempts, reviews) ==
    << duePool(problems, reviews), wrongRecentPool(problems, attempts),
       slowPool(problems, attempts), unseenPool(problems, attempts) >>

pools_UnseenBeforeWrong(problems, attempts, reviews) ==
    << duePool(problems, reviews), slowPool(problems, attempts),
       unseenPool(problems, attempts), wrongRecentPool(problems, attempts) >>

\* const pools = [due, slow, wrongRecent, unseen]
pools(problems, attempts, reviews) ==
    << duePool(problems, reviews), slowPool(problems, attempts),
       wrongRecentPool(problems, attempts), unseenPool(problems, attempts) >>

RECURSIVE pickLoop_NoDedup(_, _, _, _, _, _, _)
pickLoop_NoDedup(ps, k, i, picked, pickedSet, estimatedTime, target) ==
    IF k > Len(ps) THEN picked
    ELSE IF i > Len(ps[k])
         THEN pickLoop_NoDedup(ps, k + 1, 1, picked, pickedSet, estimatedTime, target)
    ELSE LET p == ps[k][i]
             time == estimatedTime + estimateSolveSeconds(p.category)
         IN  IF time >= target THEN Append(picked, p)
             ELSE pickLoop_NoDedup(ps, k, i + 1, Append(picked, p),
                                   pickedSet \cup {p.id}, time, target)

RECURSIVE pickLoop_StrictBudget(_, _, _, _, _, _, _)
pickLoop_StrictBudget(ps, k, i, picked, pickedSet, estimatedTime, target) ==
    IF k > Len(ps) THEN picked
    ELSE IF i > Len(ps[k])
         THEN pickLoop_StrictBudget(ps, k + 1, 1, picked, pickedSet, estimatedTime, target)
    ELSE LET p == ps[k][i]
             time == estimatedTime + estimateSolveSeconds(p.category)
         IN  IF p.id \in pickedSet
             THEN pickLoop_StrictBudget(ps, k, i + 1, picked, pickedSet,
                                        estimatedTime, target)
             ELSE IF time > target THEN Append(picked, p)
             ELSE pickLoop_StrictBudget(ps, k, i + 1, Append(picked, p),
                                        pickedSet \cup {p.id}, time, target)

RECURSIVE pickLoop_CheckBeforeAdd(_, _, _, _, _, _, _)
pickLoop_CheckBeforeAdd(ps, k, i, picked, pickedSet, estimatedTime, target) ==
    IF k > Len(ps) THEN picked
    ELSE IF i > Len(ps[k])
         THEN pickLoop_CheckBeforeAdd(ps, k + 1, 1, picked, pickedSet, estimatedTime, target)
    ELSE LET p == ps[k][i]
             time == estimatedTime + estimateSolveSeconds(p.category)
         IN  IF p.id \in pickedSet
             THEN pickLoop_CheckBeforeAdd(ps, k, i + 1, picked, pickedSet,
                                          estimatedTime, target)
             ELSE IF estimatedTime >= target THEN picked
             ELSE pickLoop_CheckBeforeAdd(ps, k, i + 1, Append(picked, p),
                                          pickedSet \cup {p.id}, time, target)

\* the two nested loops of pickQuickSession from pool k, element i on
RECURSIVE pickLoop(_, _, _, _, _, _, _)
pickLoop(ps, k, i, picked, pickedSet, estimatedTime, target) ==
    IF k > Len(ps) THEN picked
    ELSE IF i > Len(ps[k]) THEN pickLoop(ps, k + 1, 1, picked, pickedSet, estimatedTime, target)
    ELSE LET p == ps[k][i]
             time == estimatedTime + estimateSolveSeconds(p.category)
         IN  IF p.id \in pickedSet
             THEN pickLoop(ps, k, i + 1, picked, pickedSet, estimatedTime, target)
             ELSE IF time >= target THEN Append(picked, p)
             ELSE pickLoop(ps, k, i + 1, Append(picked, p), pickedSet \cup {p.id},
                           time, target)

pickQuickSession(target, problems, attempts, reviews) ==
    pickLoop(pools(problems, attempts, reviews), 1, 1, <<>>, {}, 0, target)

-----------------------------------------------------------------------------
(* Picker calls on drawn arguments *)

\* the ids of the catalog's problems, in catalog order
ProblemNames == <<"A", "B", "C", "D", "E", "F">>

ProblemIds == { ProblemNames[i] : i \in 1..MaxProblems }

\* category and difficulty of the problems a catalog is cut from
CatalogKinds == <<
    [category |-> "table", difficulty |-> 1],
    [category |-> "bar", difficulty |-> 2],
    [category |-> "pie", difficulty |-> 1],
    [category |-> "composite", difficulty |-> 3],
    [category |-> "bar", difficulty |-> 1] >>

\* the catalogs: MaxProblems problems with distinct ids, their kinds taken
\* from CatalogKinds starting at any place in it
Catalogs ==
    { [i \in 1..MaxProblems |->
          LET kind == CatalogKinds[((o + i - 1) % Len(CatalogKinds)) + 1]
          IN  [id |-> ProblemNames[i], category |-> kind.category,
               difficulty |-> kind.difficulty]] :
      o \in 0..(Len(CatalogKinds) - 1) }

\* the instants used for answeredAt and nextReviewAt
EarlyTime == MakeDate(0, 23)
LateTime == MakeDate(30, 0)
PickTimes == {EarlyTime, LateTime}

TargetOptions == {0, 60, 100, 180}

\* what is stored about one problem: its latest attempt, if any
AttemptOptions ==
    { Null,
      [answeredAt |-> toISOString(EarlyTime), isCorrect |-> FALSE, timeMs |-> 45000],
      [answeredAt |-> toISOString(LateTime), isCorrect |-> FALSE, timeMs |-> 80000],
      [answeredAt |-> toISOString(EarlyTime), isCorrect |-> TRUE, timeMs |-> 80000],
      [answeredAt |-> toISOString(LateTime), isCorrect |-> TRUE, timeMs |-> 45000] }

DueOptions == {Null} \cup { [nextReviewAt |-> toISOString(t)] : t \in PickTimes }

\* the entries of the ids from position i of the catalog on that are due
RECURSIVE DueEntries(_, _)
DueEntries(due, i) ==
    IF i > MaxProblems THEN <<>>
    ELSE LET id == ProblemNames[i]
         IN  (IF due[id] = Null THEN <<>>
              ELSE <<[problemId |-> id, nextReviewAt |-> due[id].nextReviewAt,
                      stage |-> 0]>>)
             \o DueEntries(due, i + 1)

InitPick ==
    /\ targetSeconds \in TargetOptions
    /\ allProblems \in Catalogs
    /\ \E att \in [ProblemIds -> AttemptOptions] :
          latestAttempts =
              [id \in { j \in ProblemIds : att[j] # Null } |->
                  [problemId |-> id, answeredAt |-> att[id].answeredAt,
                   isCorrect |-> att[id].isCorrect, timeMs |-> att[id].timeMs]]
    /\ \E due \in [ProblemIds -> DueOptions] :
          \* as getDueReviews returns them: ORDER BY nextReviewAt ASC
          LET entries == DueEntries(due, 1)
          IN  dueReviews = sort(entries,
                                [a \in Range(entries), b \in Range(entries) |->
                                    localeCompare(a.nextReviewAt, b.nextReviewAt)])
    /\ pickOut = Null
    /\ SchedIdle
    /\ AppIdle

CallPickQuickSession ==
    /\ pickOut = Null
    /\ pickOut' = [op |-> "pickQuickSession",
                   result |-> pickQuickSession(targetSeconds, allProblems,
                                               latestAttempts, dueReviews)]
    /\ UNCHANGED <<schedVars, targetSeconds, allProblems, latestAttempts, dueReviews, appVars>>

NextPick == CallPickQuickSession

SpecPick == InitPick /\ [][NextPick]_vars

-----------------------------------------------------------------------------
(* sessionPicker: the review session and the speed session *)

DefaultMaxCount == 10

slice_Unlimited(seq, maxCount) == seq

\* candidates.slice(0, maxCount)
slice(seq, maxCount) == SubSeq(seq, 1, Min(Len(seq), maxCount))

\* latestAttempts.get(a.id)?.answeredAt ?? ""
answeredAtOrEmpty(attempts, id) ==
    IF id \in DOMAIN attempts THEN attempts[id].answeredAt ELSE <<>>

\* latestAttempts.get(a.id)?.timeMs ?? 0
timeMsOrZero(attempts, id) ==
    IF id \in DOMAIN attempts THEN attempts[id].timeMs ELSE 0

pickReviewSession_ByDateOnly(problems, attempts, reviews, maxCount) ==
    LET dueSet == { reviews[i].problemId : i \in DOMAIN reviews }
        IsCandidate(p) ==
            \/ p.id \in dueSet
            \/ p.id \in DOMAIN attempts /\ ~attempts[p.id].isCorrect
        cand == SelectSeq(problems, IsCandidate)
        cmp == [a \in Range(cand), b \in Range(cand) |->
                   localeCompare(answeredAtOrEmpty(attempts, a.id),
                                 answeredAtOrEmpty(attempts, b.id))]
    IN  slice(sort(cand, cmp), maxCount)

\* the problems with a due review or a wrong latest attempt: the due ones
\* first, then by the date of the latest attempt, at most maxCount of them
pickReviewSession(problems, attempts, reviews, maxCount) ==
    LET dueSet == { reviews[i].problemId : i \in DOMAIN reviews }
        IsCandidate(p) ==
            \/ p.id \in dueSet
            \/ p.id \in DOMAIN attempts /\ ~attempts[p.id].isCorrect
        cand == SelectSeq(problems, IsCandidate)
        dueRank(p) == IF p.id \in dueSet THEN 0 ELSE 1
        cmp == [a \in Range(cand), b \in Range(cand) |->
                   IF dueRank(a) # dueRank(b) THEN dueRank(a) - dueRank(b)
                   ELSE localeCompare(answeredAtOrEmpty(attempts, a.id),
                                      answeredAtOrEmpty(attempts, b.id))]
    IN  slice(sort(cand, cmp), maxCount)

pickSpeedSession_Ascending(problems, attempts, maxCount) ==
    LET IsSlow(p) ==
            /\ p.id \in DOMAIN attempts
            /\ attempts[p.id].isCorrect
            /\ attempts[p.id].timeMs > targetTimeForCategory(p.category) * 1000
        cand == SelectSeq(problems, IsSlow)
        cmp == [a \in Range(cand), b \in Range(cand) |->
                   timeMsOrZero(attempts, a.id) - timeMsOrZero(attempts, b.id)]
    IN  slice(sort(cand, cmp), maxCount)

\* the problems answered correctly but over the target time, slowest first
pickSpeedSession(problems, attempts, maxCount) ==
    LET IsSlow(p) ==
            /\ p.id \in DOMAIN attempts
            /\ attempts[p.id].isCorrect
            /\ attempts[p.id].timeMs > targetTimeForCategory(p.category) * 1000
        cand == SelectSeq(problems, IsSlow)
        cmp == [a \in Range(cand), b \in Range(cand) |->
                   timeMsOrZero(attempts, b.id) - timeMsOrZero(attempts, a.id)]
    IN  slice(sort(cand, cmp), maxCount)

\* count: number = 20
DefaultCount == 20

weaknessScore_NoPenalty(p, a) ==
    LET overTime == a.timeMs - targetTimeForCategory(p.category) * 1000
    IN  IF overTime > 0 THEN overTime ELSE 0

\* the score of one attempted problem, in thousandths (the code divides the
\* milliseconds over target by 1000): 10 for a wrong answer plus the seconds
\* over the category's target time
weaknessScore(p, a) ==
    LET overTime == a.timeMs - targetTimeForCategory(p.category) * 1000
    IN  (IF ~a.isCorrect THEN 10 * 1000 ELSE 0) + (IF overTime > 0 THEN overTime ELSE 0)

scoredOf_NoFilter(problems, attempts) ==
    [i \in DOMAIN problems |->
        [problem |-> problems[i],
         score |-> IF problems[i].id \in DOMAIN attempts
                   THEN weaknessScore(problems[i], attempts[problems[i].id])
                   ELSE 0]]

scoredOf(problems, attempts) ==
    LET attempted == SelectSeq(problems, LAMBDA p : p.id \in DOMAIN attempts)
    IN  [i \in DOMAIN attempted |->
            [problem |-> attempted[i],
             score |-> weaknessScore(attempted[i], attempts[attempted[i].id])]]

pickWeaknessTest_WeakestLast(problems, attempts, count) ==
    LET scored == scoredOf(problems, attempts)
        cmp == [a \in Range(scored), b \in Range(scored) |-> a.score - b.score]
        cut == slice(sort(scored, cmp), count)
    IN  [i \in DOMAIN cut |-> cut[i].problem]

\* the attempted problems, the highest score first, at most count of them
pickWeaknessTest(problems, attempts, count) ==
    LET scored == scoredOf(problems, attempts)
        cmp == [a \in Range(scored), b \in Range(scored) |-> b.score - a.score]
        cut == slice(sort(scored, cmp), count)
    IN  [i \in DOMAIN cut |-> cut[i].problem]

-----------------------------------------------------------------------------
(* Review and speed session calls on drawn arguments *)

\* the latest attempts and the due entries InitPick draws
LatestAttemptsDrawn ==
    { [id \in { j \in ProblemIds : att[j] # Null } |->
          [problemId |-> id, answeredAt |-> att[id].answeredAt,
           isCorrect |-> att[id].isCorrect, timeMs |-> att[id].timeMs]] :
      att \in [ProblemIds -> AttemptOptions] }

DueReviewsDrawn ==
    { LET entries == DueEntries(due, 1)
      IN  sort(entries, [a \in Range(entries), b \in Range(entries) |->
                            localeCompare(a.nextReviewAt, b.nextReviewAt)]) :
      due \in [ProblemIds -> DueOptions] }

\* the values passed for maxCount: short of the candidates, and the default
MaxCountOptions == {1, 2, DefaultMaxCount}

InitReview ==
    /\ targetSeconds = 0
    /\ allProblems \in Catalogs
    /\ latestAttempts \in LatestAttemptsDrawn
    /\ dueReviews \in DueReviewsDrawn
    /\ pickOut = Null
    /\ SchedIdle
    /\ AppIdle

CallPickReviewSession ==
    /\ pickOut = Null
    /\ \E maxCount \in MaxCountOptions :
          pickOut' = [op |-> "pickReviewSession", maxCount |-> maxCount,
                      result |-> pickReviewSession(allProblems, latestAttempts,
                                                   dueReviews, maxCount)]
    /\ UNCHANGED <<schedVars, targetSeconds, allProblems, latestAttempts, dueReviews, appVars>>

NextReview == CallPickReviewSession

SpecReview == InitReview /\ [][NextReview]_vars

\* the speed session takes no due entries
InitSpeed ==
    /\ targetSeconds = 0
    /\ allProblems \in Catalogs
    /\ latestAttempts \in LatestAttemptsDrawn
    /\ dueReviews = <<>>
    /\ pickOut = Null
    /\ SchedIdle
    /\ AppIdle

CallPickSpeedSession ==
    /\ pickOut = Null
    /\ \E maxCount \in MaxCountOptions :
          pickOut' = [op |-> "pickSpeedSession", maxCount |-> maxCount,
                      result |-> pickSpeedSession(allProblems, latestAttempts, maxCount)]
    /\ UNCHANGED <<schedVars, targetSeconds, allProblems, latestAttempts, dueReviews, appVars>>

NextSpeed == CallPickSpeedSession

SpecSpeed == InitSpeed /\ [][NextSpeed]_vars

-----------------------------------------------------------------------------
(* Weakness test calls on drawn arguments *)

\* the latest attempt of one problem: none, wrong within the target time,
\* wrong and slow, right and a little over the target time, right and fast
WeakAttemptOptions ==
    { Null,
      [answeredAt |-> toISOString(EarlyTime), isCorrect |-> FALSE, timeMs |-> 20000],
      [answeredAt |-> toISOString(EarlyTime), isCorrect |-> FALSE, timeMs |-> 80000],
      [answeredAt |-> toISOString(EarlyTime), isCorrect |-> TRUE, timeMs |-> 60000],
      [answeredAt |-> toISOString(EarlyTime), isCorrect |-> TRUE, timeMs |-> 20000] }

\* the values passed for count: short of the attempted problems, and the default
CountOptions == {1, 2, DefaultCount}

InitWeak ==
    /\ targetSeconds = 0
    /\ allProblems \in Catalogs
    /\ \E att \in [ProblemIds -> WeakAttemptOptions] :
          latestAttempts =
              [id \in { j \in ProblemIds : att[j] # Null } |->
                  [problemId |-> id, answeredAt |-> att[id].answeredAt,
                   isCorrect |-> att[id].isCorrect, timeMs |-> att[id].timeMs]]
    /\ dueReviews = <<>>
    /\ pickOut = Null
    /\ SchedIdle
    /\ AppIdle

CallPickWeaknessTest ==
    /\ pickOut = Null
    /\ \E count \in CountOptions :
          pickOut' = [op |-> "pickWeaknessTest", count |-> count,
                      result |-> pickWeaknessTest(allProblems, latestAttempts, count)]
    /\ UNCHANGED <<schedVars, targetSeconds, allProblems, latestAttempts, dueReviews, appVars>>

NextWeak == CallPickWeaknessTest

SpecWeak == InitWeak /\ [][NextWeak]_vars

-----------------------------------------------------------------------------
(* sessionPicker: generateRecommendations *)

\* Here latestAttempts is the Map as its entries in insertion order, each
\* entry the attempt stored under its problemId; a card is a record of its
\* type, the number of questions its title names (size), estimatedMinutes
\* and, on a category card, the category.

\* Math.ceil(a / b) for whole a >= 0 and b > 0
MathCeil(a, b) == (a + b - 1) \div b

\* latestAttempts.get(id), Null when the Map has no such key
mapGet(entries, id) ==
    IF \E i \in DOMAIN entries : entries[i].problemId = id
    THEN entries[CHOOSE i \in DOMAIN entries : entries[i].problemId = id]
    ELSE Null

\* allProblems.find((p) => p.id === id), Null when there is none
findProblem(problems, id) ==
    IF \E i \in DOMAIN problems : problems[i].id = id
    THEN problems[CHOOSE i \in DOMAIN problems :
                      /\ problems[i].id = id
                      /\ \A j \in DOMAIN problems : problems[j].id = id => i <= j]
    ELSE Null

reviewCards_NoLiveCheck(now, reviews) ==
    LET dueCount == Len(reviews)
    IN  IF dueCount > 0
        THEN << [type |-> "review", size |-> Min(dueCount, 5),
                 estimatedMinutes |-> MathCeil(dueCount * 50, 60)] >>
        ELSE <<>>

\* lines 214-225: the entries of dueReviews that are due at this moment
reviewCards(now, reviews) ==
    LET dueCount == Len(SelectSeq(reviews, LAMBDA r : DateParse(r.nextReviewAt) <= now))
    IN  IF dueCount > 0
        THEN << [type |-> "review", size |-> Min(dueCount, 5),
                 estimatedMinutes |-> MathCeil(dueCount * 50, 60)] >>
        ELSE <<>>

\* lines 227-239: the problems answered correctly but over the target time
speedCards(problems, attempts) ==
    LET IsSlow(p) ==
            LET a == mapGet(attempts, p.id)
            IN  /\ a # Null
                /\ a.isCorrect
                /\ a.timeMs > targetTimeForCategory(p.category) * 1000
        slowCount == Len(SelectSeq(problems, IsSlow))
    IN  IF slowCount > 0
        THEN << [type |-> "speed", size |-> Min(slowCount, 3),
                 estimatedMinutes |-> MathCeil(Min(slowCount, 3) * 45, 60)] >>
        ELSE <<>>

\* lines 242-253: the Map category -> {correct, total} after the first n
\* entries of latestAttempts, as its entries in insertion order
RECURSIVE categoryAccuracy(_, _, _)
categoryAccuracy(problems, attempts, n) ==
    IF n = 0 THEN <<>>
    ELSE LET acc == categoryAccuracy(problems, attempts, n - 1)
             attempt == attempts[n]
             problem == findProblem(problems, attempt.problemId)
             add == IF attempt.isCorrect THEN 1 ELSE 0
         IN  IF problem = Null THEN acc
             ELSE IF \E i \in DOMAIN acc : acc[i].category = problem.category
             THEN [i \in DOMAIN acc |->
                      IF acc[i].category = problem.category
                      THEN [category |-> acc[i].category,
                            correct |-> acc[i].correct + add,
                            total |-> acc[i].total + 1]
                      ELSE acc[i]]
             ELSE Append(acc, [category |-> problem.category,
                               correct |-> add, total |-> 1])

\* lines 256-263: worstCategory after the first n entries of the Map. The
\* accuracy correct / total is kept as the pair: a / b < c / d is a * d < c * b
RECURSIVE worstCategoryOf(_, _)
worstCategoryOf(stats, n) ==
    IF n = 0 THEN Null
    ELSE LET worst == worstCategoryOf(stats, n - 1)
             st == stats[n]
         IN  IF st.total < 3 THEN worst
             ELSE IF worst = Null THEN st
             ELSE IF st.correct * worst.total < worst.correct * st.total THEN st
             ELSE worst

weakCards_Inclusive(problems, attempts) ==
    LET stats == categoryAccuracy(problems, attempts, Len(attempts))
        worstCategory == worstCategoryOf(stats, Len(stats))
    IN  IF worstCategory # Null /\ worstCategory.correct * 10 <= 7 * worstCategory.total
        THEN << [type |-> "category_weak", size |-> 3, estimatedMinutes |-> 3,
                 category |-> worstCategory.category] >>
        ELSE <<>>

\* lines 266-282: accuracy < 0.7
weakCards(problems, attempts) ==
    LET stats == categoryAccuracy(problems, attempts, Len(attempts))
        worstCategory == worstCategoryOf(stats, Len(stats))
    IN  IF worstCategory # Null /\ worstCategory.correct * 10 < 7 * worstCategory.total
        THEN << [type |-> "category_weak", size |-> 3, estimatedMinutes |-> 3,
                 category |-> worstCategory.category] >>
        ELSE <<>>

generateRecommendations_SpeedFirst(now, problems, attempts, reviews) ==
    speedCards(problems, attempts) \o reviewCards(now, reviews)
        \o weakCards(problems, attempts)

\* new Date() is the argument now
generateRecommendations(now, problems, attempts, reviews) ==
    reviewCards(now, reviews) \o speedCards(problems, attempts)
        \o weakCards(problems, attempts)

-----------------------------------------------------------------------------
(* generateRecommendations calls on drawn arguments *)

\* the catalog: CategorySize problems of each of two categories and one
\* problem of a third
CategorySize == 10

RecCatalog ==
    [i \in 1..(2 * CategorySize + 1) |->
        IF i <= CategorySize
        THEN [id |-> <<"table", i>>, category |-> "table", difficulty |-> 1]
        ELSE IF i <= 2 * CategorySize
        THEN [id |-> <<"bar", i - CategorySize>>, category |-> "bar", difficulty |-> 1]
        ELSE [id |-> <<"pie", 1>>, category |-> "pie", difficulty |-> 1]]

\* how many problems of a category have a latest attempt, and how many of
\* these are correct
SampleOptions ==
    { [total |-> 0, correct |-> 0] } \cup
    { [total |-> 2, correct |-> k] : k \in {0, 2} } \cup
    { [total |-> 3, correct |-> k] : k \in 0..3 } \cup
    { [total |-> CategorySize, correct |-> k] : k \in {6, 7, 8} }

\* how many of the correct attempts are over the target time
SlowOptions == 0..4

\* the attempts of one category: the first sample.correct ones are correct,
\* the first slow of them over the target time; the wrong ones are all slow
categoryEntries(category, sample, slow) ==
    [i \in 1..sample.total |->
        [problemId |-> <<category, i>>,
         answeredAt |-> toISOString(EarlyTime),
         isCorrect |-> i <= sample.correct,
         timeMs |-> IF i <= slow \/ i > sample.correct THEN 80000 ELSE 30000]]

\* an attempt of a problem that is not in the catalog: correct and slow
ForeignEntry ==
    [problemId |-> <<"gone", 1>>, answeredAt |-> toISOString(EarlyTime),
     isCorrect |-> TRUE, timeMs |-> 80000]

\* the moment of the call
RecNow == MakeDate(10, 12)

\* dueReviews as loaded earlier: past entries one hour apart, one due this
\* very hour, one not due yet
PastOptions == {0, 1, 5, 6, 7}

dueEntriesOf(past, same, future) ==
    [i \in 1..past |->
        [problemId |-> <<"table", i>>,
         nextReviewAt |-> toISOString(RecNow - (past + 1 - i)), stage |-> 1]]
    \o (IF same THEN << [problemId |-> <<"bar", 1>>,
                         nextReviewAt |-> toISOString(RecNow), stage |-> 0] >>
        ELSE <<>>)
    \o (IF future THEN << [problemId |-> <<"bar", 2>>,
                           nextReviewAt |-> toISOString(RecNow + 1), stage |-> 2] >>
        ELSE <<>>)

RecAttempts(table, bar, slow, barFirst, foreign) ==
    LET slowTable == Min(slow, table.correct)
        slowBar == Min(slow - slowTable, bar.correct)
        t == categoryEntries("table", table, slowTable)
        b == categoryEntries("bar", bar, slowBar)
    IN  (IF foreign THEN <<ForeignEntry>> ELSE <<>>)
            \o (IF barFirst THEN b \o t ELSE t \o b)

InitRec ==
    /\ tz \in { z \in TimeZones : z.name = "Asia/Tokyo" }
    /\ clock = RecNow
    /\ item = Null
    /\ schedOut = Null
    /\ targetSeconds = 0
    /\ allProblems = RecCatalog
    /\ \E table \in SampleOptions, bar \in SampleOptions, slow \in SlowOptions,
          barFirst \in BOOLEAN, foreign \in BOOLEAN :
          latestAttempts = RecAttempts(table, bar, slow, barFirst, foreign)
    /\ \E past \in PastOptions, same \in BOOLEAN, future \in BOOLEAN :
          dueReviews = dueEntriesOf(past, same, future)
    /\ pickOut = Null
    /\ AppIdle

CallGenerateRecommendations ==
    /\ pickOut = Null
    /\ pickOut' = [op |-> "generateRecommendations",
                   result |-> generateRecommendations(clock, allProblems,
                                                      latestAttempts, dueReviews)]
    /\ UNCHANGED <<schedVars, targetSeconds, allProblems, latestAttempts, dueReviews, appVars>>

NextRec == CallGenerateRecommendations

SpecRec == InitRec /\ [][NextRec]_vars

-----------------------------------------------------------------------------
(* db/sampleProblems: the catalog *)

\* the catalog, cut to the first problem of its first two categories
SAMPLE_PROBLEMS ==
    << [id |-> "table-001", category |-> "table", difficulty |-> 1, correctIndex |-> 2],
       [id |-> "bar-001", category |-> "bar", difficulty |-> 1, correctIndex |-> 2] >>

SampleIds == { SAMPLE_PROBLEMS[i].id : i \in DOMAIN SAMPLE_PROBLEMS }

\* SAMPLE_PROBLEMS.find((p) => p.id === id), Null when there is none
getProblemById(id) ==
    IF id \in SampleIds
    THEN SAMPLE_PROBLEMS[CHOOSE i \in DOMAIN SAMPLE_PROBLEMS : SAMPLE_PROBLEMS[i].id = id]
    ELSE Null

\* ids.map(getProblemById).filter(Boolean)
RECURSIVE problemsOfIds(_)
problemsOfIds(ids) ==
    IF ids = <<>> THEN <<>>
    ELSE LET rest == problemsOfIds(Tail(ids))
         IN  IF getProblemById(Head(ids)) = Null THEN rest
             ELSE <<getProblemById(Head(ids))>> \o rest

\* problems.map((p) => p.id)
idsOf(problems) == [i \in DOMAIN problems |-> problems[i].id]

\* the sequences of n distinct problems of the catalog
Selections(n) ==
    { s \in [1..n -> Range(SAMPLE_PROBLEMS)] :
        \A i, j \in 1..n : i # j => s[i] # s[j] }

\* [...SAMPLE_PROBLEMS].sort(() => Math.random() - 0.5).slice(0, 5): the
\* outcomes of the shuffle
FallbackCount == 5
RandomSessions_WithRepeats ==
    [1..Min(FallbackCount, Len(SAMPLE_PROBLEMS)) -> Range(SAMPLE_PROBLEMS)]

RandomSessions == Selections(Min(FallbackCount, Len(SAMPLE_PROBLEMS)))

-----------------------------------------------------------------------------
(* db/database: the tables and their statements *)

\* INSERT OR REPLACE INTO attempts: the row of the same id goes, the new row
\* is the last one
saveAttempt(table, attempt) ==
    Append(SelectSeq(table, LAMBDA r : r.id # attempt.id), attempt)

\* SELECT * FROM attempts ORDER BY answeredAt DESC
getAllAttempts(table) ==
    sort(table, [a \in Range(table), b \in Range(table) |->
                    localeCompare(b.answeredAt, a.answeredAt)])

\* SELECT * FROM review_queue WHERE nextReviewAt <= now ORDER BY nextReviewAt
getDueReviews(table, now) ==
    LET IsDue(r) == localeCompare(r.nextReviewAt, toISOString(now)) <= 0
        rows == SelectSeq(table, IsDue)
    IN  sort(rows, [a \in Range(rows), b \in Range(rows) |->
                       localeCompare(a.nextReviewAt, b.nextReviewAt)])

upsertReviewItem_InsertOnly(table, reviewItem) == Append(table, reviewItem)

\* INSERT OR REPLACE INTO review_queue, keyed by problemId
upsertReviewItem(table, reviewItem) ==
    Append(SelectSeq(table, LAMBDA r : r.problemId # reviewItem.problemId), reviewItem)

\* INSERT OR REPLACE INTO session_state, keyed by id
saveSessionState(table, session) ==
    Append(SelectSeq(table, LAMBDA r : r.id # session.id), session)

\* SELECT * FROM session_state ORDER BY rowid DESC LIMIT 1
getActiveSession(table) == IF table = <<>> THEN Null ELSE table[Len(table)]

\* DELETE FROM session_state WHERE id = ?
clearSession(table, id) == SelectSeq(table, LAMBDA r : r.id # id)

\* INSERT OR REPLACE INTO test_results, keyed by id
saveTestResult(table, result) ==
    Append(SelectSeq(table, LAMBDA r : r.id # result.id), result)

\* the row review_queue holds for a problem, Null when it holds none
reviewRow(table, problemId) == find(table, problemId)

\* a handler's writes that the storage rejected: <<index of the answer, statement>>
NoFailure == {}

-----------------------------------------------------------------------------
(* The clock of the application *)

\* the application is started at StartClock, four days after PriorTime
PriorTime == MakeDate(0, 22)
StartClock == MakeDate(4, 22)

\* the mount effects and the handlers that stamp what they store read the
\* clock, and time passes between two of them: at most MaxTicks of them
CanTick == clock - StartClock < MaxTicks

\* the values the question timer and a test answer's time take
TimerValues == {0, 80000}

-----------------------------------------------------------------------------
(* HomeScreen *)

QuickDurations == {60, 180}
DefaultDuration == 180

\* loadData: the stored session the resume card shows.  A failing read leaves
\* the screen as it was.
HomeRefresh ==
    /\ route = "tabs"
    /\ \E readFails \in BOOLEAN :
          /\ home' = IF readFails THEN home
                     ELSE [activeSession |-> getActiveSession(sessionTable)]
          /\ dbFailed' = IF readFails THEN {<<0, "read">>} ELSE NoFailure
    /\ UNCHANGED <<schedVars, pickVars, attemptsTable, reviewQueue, sessionTable,
                   testResults, route, question, test>>

-----------------------------------------------------------------------------
(* QuestionScreen *)

\* a problem has NumChoices choices; the ones tapped are the right one and
\* the one after it
NumChoices == 5
Taps(problem) == {problem.correctIndex, (problem.correctIndex + 1) % NumChoices}

\* problems[currentIndex], Null for undefined
currentProblemOf(screen) ==
    IF screen.currentIndex + 1 \in DOMAIN screen.problems
    THEN screen.problems[screen.currentIndex + 1]
    ELSE Null

isLastProblem(screen) == screen.currentIndex >= Len(screen.problems) - 1

\* the Map the mount effect builds from getAllAttempts(): for each problem
\* the first row of the list
latestAttemptsOf(attempts) ==
    [id \in { attempts[i].problemId : i \in DOMAIN attempts } |->
        attempts[CHOOSE i \in DOMAIN attempts :
                    /\ attempts[i].problemId = id
                    /\ \A j \in 1..(i - 1) : attempts[j].problemId # id]]

\* what the mount effect picks for a mode from the stored rows
pickedFor(mode, duration) ==
    LET latest == latestAttemptsOf(getAllAttempts(attemptsTable))
        due == getDueReviews(reviewQueue, clock)
    IN  IF mode = "review"
        THEN pickReviewSession(SAMPLE_PROBLEMS, latest, due, DefaultMaxCount)
        ELSE IF mode = "speed"
        THEN pickSpeedSession(SAMPLE_PROBLEMS, latest, DefaultMaxCount)
        ELSE pickQuickSession(duration, SAMPLE_PROBLEMS, latest, due)

\* the screen once its mount effect has run with these problems: the session
\* id is the time of the first render, the timer runs
Mounted(problems, currentIndex) ==
    [QuestionUnmounted EXCEPT !.problems = problems,
                              !.currentIndex = currentIndex,
                              !.sessionId = clock,
                              !.timer.isRunning = TRUE]

\* a problem of the learn list is opened: mode "learn"
OpenLearn ==
    /\ route = "tabs"
    /\ CanTick
    /\ \E id \in SampleIds : question' = Mounted(<<getProblemById(id)>>, 0)
    /\ route' = "question"
    /\ clock' = clock + 1
    /\ dbFailed' = NoFailure
    /\ UNCHANGED <<tz, item, schedOut, pickVars, attemptsTable, reviewQueue,
                   sessionTable, testResults, home, test>>

\* startQuickSession, startReviewSession, startSpeedSession and the mount
\* effect for their mode: the picked problems, a shuffle of the catalog when
\* none is picked or when the rows cannot be read
OpenSession(mode) ==
    /\ route = "tabs"
    /\ CanTick
    /\ \E duration \in QuickDurations, readFails \in BOOLEAN :
          /\ mode # "quick" => duration = DefaultDuration
          /\ LET picked == IF readFails THEN <<>> ELSE pickedFor(mode, duration)
             IN  \E session \in (IF picked = <<>> THEN RandomSessions ELSE {picked}) :
                    question' = Mounted(session, 0)
          /\ dbFailed' = IF readFails THEN {<<0, "read">>} ELSE NoFailure
    /\ route' = "question"
    /\ clock' = clock + 1
    /\ UNCHANGED <<tz, item, schedOut, pickVars, attemptsTable, reviewQueue,
                   sessionTable, testResults, home, test>>

\* resumeSession and the mount effect for mode "resume": the screen reads the
\* stored session itself; a failing read goes back
OpenResume ==
    /\ route = "tabs"
    /\ home.activeSession # Null
    /\ CanTick
    /\ \E readFails \in BOOLEAN :
          LET session == getActiveSession(sessionTable)
          IN  /\ question' =
                    IF readFails THEN QuestionUnmounted
                    ELSE IF session = Null THEN Mounted(<<>>, 0)
                    ELSE Mounted(problemsOfIds(session.problemIds), session.currentIndex)
              /\ route' = IF readFails THEN "tabs" ELSE "question"
              /\ dbFailed' = IF readFails THEN {<<0, "read">>} ELSE NoFailure
    /\ clock' = clock + 1
    /\ UNCHANGED <<tz, item, schedOut, pickVars, attemptsTable, reviewQueue,
                   sessionTable, testResults, home, test>>

\* the interval of useTimer: the elapsed time shown grows
TimerTick ==
    /\ route = "question"
    /\ question.timer.isRunning
    /\ \E ms \in TimerValues :
          /\ ms > question.timer.elapsedMs
          /\ question' = [question EXCEPT !.timer.elapsedMs = ms]
    /\ UNCHANGED <<schedVars, pickVars, dbVars, route, home, test>>

handleSelectChoice ==
    /\ route = "question"
    /\ currentProblemOf(question) # Null
    /\ ~question.isConfirmed
    /\ \E index \in Taps(currentProblemOf(question)) :
          question' = [question EXCEPT !.selectedChoice = index]
    /\ dbFailed' = NoFailure
    /\ UNCHANGED <<schedVars, pickVars, attemptsTable, reviewQueue, sessionTable,
                   testResults, route, home, test>>

\* the session row handleConfirm and handleBack store (its label, a display
\* text, is left out)
sessionOf(screen, now) ==
    [id |-> screen.sessionId, type |-> "quick", problemIds |-> idsOf(screen.problems),
     currentIndex |-> screen.currentIndex, answers |-> <<>>,
     startedAt |-> toISOString(now), elapsedMs |-> screen.timer.elapsedMs]

\* timer.pause()
paused(timer) ==
    [timer EXCEPT !.isRunning = FALSE,
                  !.accumulated = IF timer.isRunning THEN timer.elapsedMs ELSE @]

\* handleConfirm: the attempt, the review item computed from no current item,
\* the session row; the first statement that fails ends the three
handleConfirm ==
    /\ route = "question"
    /\ question.selectedChoice # NoChoice
    /\ currentProblemOf(question) # Null
    /\ ~question.isConfirmed
    /\ CanTick
    /\ \E failed \in {"none", "saveAttempt", "upsertReviewItem", "saveSessionState"} :
          LET currentProblem == currentProblemOf(question)
              isCorrect == question.selectedChoice = currentProblem.correctIndex
              attempt == [id |-> [problemId |-> currentProblem.id, test |-> FALSE,
                                  now |-> clock, i |-> 0],
                          problemId |-> currentProblem.id,
                          answeredAt |-> toISOString(clock),
                          isCorrect |-> isCorrect,
                          selectedIndex |-> question.selectedChoice,
                          timeMs |-> question.timer.elapsedMs]
              reviewItem == computeNextReview(tz, clock, currentProblem.id, isCorrect, Null)
              attemptSaved == failed # "saveAttempt"
              reviewSaved == attemptSaved /\ reviewItem # RangeError
                                /\ failed # "upsertReviewItem"
              sessionSaved == reviewSaved /\ failed # "saveSessionState"
          IN  /\ attemptsTable' = IF attemptSaved THEN saveAttempt(attemptsTable, attempt)
                                  ELSE attemptsTable
              /\ reviewQueue' = IF reviewSaved THEN upsertReviewItem(reviewQueue, reviewItem)
                                ELSE reviewQueue
              /\ sessionTable' = IF sessionSaved
                                 THEN saveSessionState(sessionTable, sessionOf(question, clock))
                                 ELSE sessionTable
              /\ dbFailed' = IF failed = "none" THEN NoFailure ELSE {<<0, failed>>}
    /\ question' = [question EXCEPT !.isConfirmed = TRUE,
                                    !.showExplanation = TRUE,
                                    !.timer = paused(@)]
    /\ clock' = clock + 1
    /\ UNCHANGED <<tz, item, schedOut, pickVars, testResults, route, home, test>>

\* handleNext: after the last problem the session row goes and the screen
\* closes, otherwise the next problem is shown and the timer restarts
handleNext ==
    /\ route = "question"
    /\ question.showExplanation
    /\ IF isLastProblem(question)
       THEN \E failed \in BOOLEAN :
               /\ sessionTable' = IF failed THEN sessionTable
                                  ELSE clearSession(sessionTable, question.sessionId)
               /\ dbFailed' = IF failed THEN {<<0, "clearSession">>} ELSE NoFailure
               /\ route' = "tabs"
               /\ question' = QuestionUnmounted
       ELSE /\ question' = [question EXCEPT
                              !.currentIndex = @ + 1,
                              !.selectedChoice = NoChoice,
                              !.isConfirmed = FALSE,
                              !.showExplanation = FALSE,
                              !.timer = [elapsedMs |-> 0, isRunning |-> TRUE,
                                         accumulated |-> 0]]
            /\ dbFailed' = NoFailure
            /\ UNCHANGED <<sessionTable, route>>
    /\ UNCHANGED <<schedVars, pickVars, attemptsTable, reviewQueue, testResults,
                   home, test>>

\* handleBack, "保存して戻る": the session row is stored, the screen closes
handleBackSave ==
    /\ route = "question"
    /\ currentProblemOf(question) # Null
    /\ \E failed \in BOOLEAN :
          /\ sessionTable' =
                IF failed THEN sessionTable
                ELSE saveSessionState(sessionTable,
                                      sessionOf(question, clock))
          /\ dbFailed' = IF failed THEN {<<0, "saveSessionState">>} ELSE NoFailure
    /\ route' = "tabs"
    /\ question' = QuestionUnmounted
    /\ UNCHANGED <<schedVars, pickVars, attemptsTable, reviewQueue, testResults,
                   home, test>>

\* handleBack, "保存せず戻る": the screen closes
handleBackDiscard ==
    /\ route = "question"
    /\ currentProblemOf(question) # Null
    /\ route' = "tabs"
    /\ question' = QuestionUnmounted
    /\ dbFailed' = NoFailure
    /\ UNCHANGED <<schedVars, pickVars, attemptsTable, reviewQueue, sessionTable,
                   testResults, home, test>>

-----------------------------------------------------------------------------
(* TestSessionScreen *)

\* startPresetTest, startCustomTest and the mount effect: a shuffle of the
\* catalog cut to the test's length, no answer yet (an answer's isCorrect is
\* null until a choice is made, and every reader takes null for false; its
\* flag, a mark for the user that toggleFlag sets, is left out), the
\* countdown runs
OpenTest ==
    /\ route = "tabs"
    /\ CanTick
    /\ \E n \in 1..Len(SAMPLE_PROBLEMS) : \E probs \in Selections(n) :
          test' = [TestUnmounted EXCEPT
                     !.problems = probs,
                     !.answers = [i \in 1..n |->
                                    [problemId |-> probs[i].id, selectedIndex |-> NoChoice,
                                     isCorrect |-> FALSE, timeMs |-> 0]],
                     !.countdown.isRunning = TRUE]
    /\ route' = "test-session"
    /\ clock' = clock + 1
    /\ dbFailed' = NoFailure
    /\ UNCHANGED <<tz, item, schedOut, pickVars, attemptsTable, reviewQueue,
                   sessionTable, testResults, home, question>>

\* handleSelectChoice of the test: the answer is recorded at once and a
\* timeout is set that moves on from the question it was set at
handleSelectChoiceTest ==
    /\ route = "test-session"
    /\ ~test.timeUpAlert
    /\ currentProblemOf(test) # Null
    /\ \E index \in Taps(currentProblemOf(test)), timeMs \in TimerValues :
          LET i == test.currentIndex + 1
              isCorrect == index = currentProblemOf(test).correctIndex
          IN  test' = [test EXCEPT
                         !.selectedChoice = index,
                         !.answers = IF i \in DOMAIN test.answers
                                     THEN [@ EXCEPT ![i].selectedIndex = index,
                                                    ![i].isCorrect = isCorrect,
                                                    ![i].timeMs = timeMs]
                                     ELSE @,
                         !.pending = @ \cup {test.currentIndex}]
    /\ dbFailed' = NoFailure
    /\ UNCHANGED <<schedVars, pickVars, attemptsTable, reviewQueue, sessionTable,
                   testResults, route, home, question>>

\* the timeout of handleSelectChoice set at question index fires
AutoAdvance ==
    /\ route = "test-session"
    /\ \E index \in test.pending :
          test' = IF index < Len(test.problems) - 1
                  THEN [test EXCEPT !.currentIndex = index + 1,
                                    !.selectedChoice = NoChoice,
                                    !.pending = @ \ {index}]
                  ELSE [test EXCEPT !.pending = @ \ {index}]
    /\ UNCHANGED <<schedVars, pickVars, dbVars, route, home, question>>

\* goToQuestion from the number grid and the previous and next buttons
goToQuestion ==
    /\ route = "test-session"
    /\ ~test.timeUpAlert
    /\ \E index \in 0..(Len(test.problems) - 1) :
          /\ index # test.currentIndex
          /\ test' = [test EXCEPT !.currentIndex = index, !.selectedChoice = NoChoice]
    /\ dbFailed' = NoFailure
    /\ UNCHANGED <<schedVars, pickVars, attemptsTable, reviewQueue, sessionTable,
                   testResults, route, home, question>>

\* Math.round(num / den) of two naturals
MathRound(num, den) == (2 * num + den) \div (2 * den)

RECURSIVE SumTimeMs(_, _)
SumTimeMs(answers, indexes) ==
    IF indexes = {} THEN 0
    ELSE LET i == CHOOSE j \in indexes : TRUE
         IN  answers[i].timeMs + SumTimeMs(answers, indexes \ {i})

\* the category breakdown of finishTest: the categories in the order of their
\* first problem
categoryBreakdownOf(answers, problems) ==
    LET scored == { i \in DOMAIN answers : i \in DOMAIN problems }
        IsFirst(i) == /\ i \in scored
                      /\ \A j \in 1..(i - 1) : problems[j].category # problems[i].category
        firsts == SelectSeq([i \in DOMAIN answers |-> i], IsFirst)
    IN  [k \in DOMAIN firsts |->
            LET category == problems[firsts[k]].category
                members == { i \in scored : problems[i].category = category }
            IN  [category |-> category,
                 total |-> Cardinality(members),
                 correct |-> Cardinality({ i \in members : answers[i].isCorrect }),
                 averageTimeMs |-> MathRound(SumTimeMs(answers, members),
                                             Cardinality(members))]]

\* the storage failures finishTest can meet: for an answer it stores, its
\* attempt or its review item, and the test result
FinishFailures(answers, problems) ==
    LET stored == { i \in DOMAIN answers :
                      i \in DOMAIN problems /\ answers[i].selectedIndex # NoChoice }
    IN  { failed \in SUBSET ((stored \X {"saveAttempt", "upsertReviewItem"})
                              \cup {<<0, "saveTestResult">>}) :
            \A i \in stored : ~(<<i, "saveAttempt">> \in failed
                                  /\ <<i, "upsertReviewItem">> \in failed) }

RECURSIVE saveAnswers_ReviewFirst(_, _, _, _, _, _)
saveAnswers_ReviewFirst(answers, problems, i, failed, attempts, reviews) ==
    IF i > Len(answers) THEN [attempts |-> attempts, reviews |-> reviews]
    ELSE IF i \notin DOMAIN problems \/ answers[i].selectedIndex = NoChoice
    THEN saveAnswers_ReviewFirst(answers, problems, i + 1, failed, attempts, reviews)
    ELSE LET answer == answers[i]
             problem == problems[i]
             attempt == [id |-> [problemId |-> problem.id, test |-> TRUE,
                                 now |-> clock, i |-> i - 1],
                         problemId |-> problem.id,
                         answeredAt |-> toISOString(clock),
                         isCorrect |-> answer.isCorrect,
                         selectedIndex |-> answer.selectedIndex,
                         timeMs |-> answer.timeMs]
             reviewItem == computeNextReview(tz, clock, problem.id, answer.isCorrect, Null)
             reviewSaved == reviewItem # RangeError
                               /\ <<i, "upsertReviewItem">> \notin failed
             attemptSaved == reviewSaved /\ <<i, "saveAttempt">> \notin failed
         IN  saveAnswers_ReviewFirst(answers, problems, i + 1, failed,
                         IF attemptSaved THEN saveAttempt(attempts, attempt) ELSE attempts,
                         IF reviewSaved THEN upsertReviewItem(reviews, reviewItem)
                         ELSE reviews)

\* the first loop of finishTest from answer i on: the tables it leaves
RECURSIVE saveAnswers(_, _, _, _, _, _)
saveAnswers(answers, problems, i, failed, attempts, reviews) ==
    IF i > Len(answers) THEN [attempts |-> attempts, reviews |-> reviews]
    ELSE IF i \notin DOMAIN problems \/ answers[i].selectedIndex = NoChoice
    THEN saveAnswers(answers, problems, i + 1, failed, attempts, reviews)
    ELSE LET answer == answers[i]
             problem == problems[i]
             attempt == [id |-> [problemId |-> problem.id, test |-> TRUE,
                                 now |-> clock, i |-> i - 1],
                         problemId |-> problem.id,
                         answeredAt |-> toISOString(clock),
                         isCorrect |-> answer.isCorrect,
                         selectedIndex |-> answer.selectedIndex,
                         timeMs |-> answer.timeMs]
             reviewItem == computeNextReview(tz, clock, problem.id, answer.isCorrect, Null)
             attemptSaved == <<i, "saveAttempt">> \notin failed
             reviewSaved == attemptSaved /\ reviewItem # RangeError
                               /\ <<i, "upsertReviewItem">> \notin failed
         IN  saveAnswers(answers, problems, i + 1, failed,
                         IF attemptSaved THEN saveAttempt(attempts, attempt) ELSE attempts,
                         IF reviewSaved THEN upsertReviewItem(reviews, reviewItem)
                         ELSE reviews)

\* finishTest as the closure that runs it sees answers and problems: the
\* answered questions are stored, the result is stored, the result is shown
finishTest(answers, problems) ==
    /\ CanTick
    /\ \E failed \in FinishFailures(answers, problems) :
          LET saved == saveAnswers(answers, problems, 1, failed, attemptsTable, reviewQueue)
              answered == { i \in DOMAIN answers : answers[i].selectedIndex # NoChoice }
              testResult ==
                  [id |-> clock,
                   completedAt |-> toISOString(clock),
                   totalQuestions |-> Len(problems),
                   correctCount |-> Cardinality({ i \in DOMAIN answers : answers[i].isCorrect }),
                   averageTimeMs |-> IF answered # {}
                                     THEN MathRound(SumTimeMs(answers, DOMAIN answers),
                                                    Cardinality(answered))
                                     ELSE 0,
                   categoryBreakdown |-> categoryBreakdownOf(answers, problems),
                   answers |-> answers]
          IN  /\ attemptsTable' = saved.attempts
              /\ reviewQueue' = saved.reviews
              /\ testResults' = IF <<0, "saveTestResult">> \in failed THEN testResults
                                ELSE saveTestResult(testResults, testResult)
              /\ dbFailed' = failed
    /\ route' = "test-result"
    /\ test' = TestUnmounted
    /\ clock' = clock + 1
    /\ UNCHANGED <<tz, item, schedOut, pickVars, sessionTable, home, question>>

\* handleFinish: the test is finished ("終了する" when answers are missing)
handleFinish ==
    /\ route = "test-session"
    /\ ~test.timeUpAlert
    /\ currentProblemOf(test) # Null
    /\ finishTest(test.answers, test.problems)

\* the interval of useCountdownTimer reaches the time limit: onExpire, once,
\* shows the alert of handleTimeUp
TimeUp ==
    /\ route = "test-session"
    /\ test.countdown.isRunning
    /\ ~test.countdown.expired
    /\ test' = [test EXCEPT !.countdown.expired = TRUE, !.timeUpAlert = TRUE]
    /\ UNCHANGED <<schedVars, pickVars, dbVars, route, home, question>>

\* "結果を見る": finishTest of the render whose onExpire the countdown was
\* started with, the first one, where answers and problems are still empty
TimeUpFinish ==
    /\ route = "test-session"
    /\ test.timeUpAlert
    /\ finishTest(TestUnmounted.answers, TestUnmounted.problems)

\* "中断する": the test is left, nothing is stored
AbortTest ==
    /\ route = "test-session"
    /\ ~test.timeUpAlert
    /\ route' = "tabs"
    /\ test' = TestUnmounted
    /\ dbFailed' = NoFailure
    /\ UNCHANGED <<schedVars, pickVars, attemptsTable, reviewQueue, sessionTable,
                   testResults, home, question>>

-----------------------------------------------------------------------------
(* TestResultScreen *)

\* the result is closed
CloseResult ==
    /\ route = "test-result"
    /\ route' = "tabs"
    /\ dbFailed' = NoFailure
    /\ UNCHANGED <<schedVars, pickVars, attemptsTable, reviewQueue, sessionTable,
                   testResults, home, question, test>>

-----------------------------------------------------------------------------
(* The application *)

\* what handleConfirm stored at PriorTime for a right answer to the first
\* problem of the catalog, given after the target time
PriorAttempt ==
    LET problem == SAMPLE_PROBLEMS[1]
    IN  [id |-> [problemId |-> problem.id, test |-> FALSE, now |-> PriorTime, i |-> 0],
         problemId |-> problem.id,
         answeredAt |-> toISOString(PriorTime),
         isCorrect |-> TRUE,
         selectedIndex |-> problem.correctIndex,
         timeMs |-> 80000]

PriorReview(zone) == computeNextReview(zone, PriorTime, SAMPLE_PROBLEMS[1].id, TRUE, Null)

\* the application is started on the home screen, in Japan, with the tables
\* of a new installation or with the rows of one learn session at PriorTime
Init ==
    /\ tz \in { z \in TimeZones : z.name = "Asia/Tokyo" }
    /\ clock = StartClock
    /\ item = Null
    /\ schedOut = Null
    /\ PickIdle
    /\ \E prior \in BOOLEAN :
          /\ attemptsTable = IF prior THEN <<PriorAttempt>> ELSE <<>>
          /\ reviewQueue = IF prior THEN <<PriorReview(tz)>> ELSE <<>>
    /\ sessionTable = <<>>
    /\ testResults = <<>>
    /\ dbFailed = NoFailure
    /\ route = "tabs"
    /\ home = HomeUnloaded
    /\ question = QuestionUnmounted
    /\ test = TestUnmounted

Next ==
    \/ HomeRefresh
    \/ OpenLearn
    \/ OpenSession("quick")
    \/ OpenSession("review")
    \/ OpenSession("speed")
    \/ OpenResume
    \/ TimerTick
    \/ handleSelectChoice
    \/ handleConfirm
    \/ handleNext
    \/ handleBackSave
    \/ handleBackDiscard
    \/ OpenTest
    \/ handleSelectChoiceTest
    \/ AutoAdvance
    \/ goToQuestion
    \/ handleFinish
    \/ TimeUp
    \/ TimeUpFinish
    \/ AbortTest
    \/ CloseResult

Spec == Init /\ [][Next]_vars

-----------------------------------------------------------------------------
(* The schedule store on its own: upsertReviewItem and getDueReviews *)

\* Here schedOut is the last call: its name and its argument or its result.

StoreIds == {"table-001", "bar-001", "pie-001"}

\* the last hour of January and the first two of February
StoreTimes == {MakeDate(30, 23), MakeDate(31, 0), MakeDate(31, 1)}

StoreStages == {0, 1}

InitStore ==
    /\ tz \in { z \in TimeZones : z.name = "Asia/Tokyo" }
    /\ clock \in StoreTimes
    /\ item = Null
    /\ schedOut = Null
    /\ PickIdle
    /\ AppIdle

CallUpsertReviewItem ==
    /\ \E id \in StoreIds, t \in StoreTimes, stage \in StoreStages :
          LET reviewItem == [problemId |-> id, nextReviewAt |-> toISOString(t),
                             stage |-> stage]
          IN  /\ reviewQueue' = upsertReviewItem(reviewQueue, reviewItem)
              /\ schedOut' = [op |-> "upsertReviewItem", reviewItem |-> reviewItem]
    /\ UNCHANGED <<tz, clock, item, pickVars, attemptsTable, sessionTable, testResults,
                   dbFailed, route, home, question, test>>

CallGetDueReviews ==
    /\ schedOut' = [op |-> "getDueReviews", result |-> getDueReviews(reviewQueue, clock)]
    /\ UNCHANGED <<tz, clock, item, pickVars, appVars>>

NextStore == CallUpsertReviewItem \/ CallGetDueReviews

SpecStore == InitStore /\ [][NextStore]_vars

-----------------------------------------------------------------------------
(* pickQuickSession called with the durations the home screen offers *)

InitPools ==
    /\ targetSeconds \in QuickDurations
    /\ allProblems \in Catalogs
    /\ latestAttempts \in LatestAttemptsDrawn
    /\ dueReviews \in DueReviewsDrawn
    /\ pickOut = Null
    /\ SchedIdle
    /\ AppIdle

NextPools == CallPickQuickSession

SpecPools == InitPools /\ [][NextPools]_vars

-----------------------------------------------------------------------------
(* The scheduler and the pickers as a library: calls in any order, again   *)
(* and again, on arguments that name problems the catalog does not have    *)

arrayAfterPick_SortInPlace(problems) ==
    sort(problems, [a \in Range(problems), b \in Range(problems) |->
                       a.difficulty - b.difficulty])

\* the array a picker was given, after the call: allProblems.filter returns
\* a new array, and it is that array the picker sorts
arrayAfterPick(problems) == problems

\* the entries of the Map latestAttempts in the order of their keys
mapEntries(attempts) ==
    LET ids == SelectSeq(ProblemNames, LAMBDA n : n \in DOMAIN attempts)
    IN  [i \in DOMAIN ids |-> attempts[ids[i]]]

\* the catalogs, whole or without their last problem
CallCatalogs ==
    { SubSeq(c, 1, n) : c \in Catalogs, n \in {MaxProblems - 1, MaxProblems} }

\* the latest attempt of one problem: none, wrong, right but slow, right
CallAttemptOptions ==
    { Null,
      [answeredAt |-> toISOString(EarlyTime), isCorrect |-> FALSE, timeMs |-> 45000],
      [answeredAt |-> toISOString(EarlyTime), isCorrect |-> TRUE, timeMs |-> 80000],
      [answeredAt |-> toISOString(LateTime), isCorrect |-> TRUE, timeMs |-> 30000] }

CallDueOptions == { Null, [nextReviewAt |-> toISOString(EarlyTime)] }

\* maxCount and count: one, and left out
CallCounts == {1, DefaultMaxCount}

InitCalls ==
    /\ tz \in { z \in TimeZones : z.name = "Asia/Tokyo" }
    /\ clock = LateTime
    /\ item = [problemId |-> ProblemNames[1],
               nextReviewAt |-> toISOString(EarlyTime), stage |-> 2]
    /\ schedOut = Null
    /\ targetSeconds = DefaultDuration
    /\ allProblems \in CallCatalogs
    /\ \E att \in [ProblemIds -> CallAttemptOptions] :
          latestAttempts =
              [id \in { j \in ProblemIds : att[j] # Null } |->
                  [problemId |-> id, answeredAt |-> att[id].answeredAt,
                   isCorrect |-> att[id].isCorrect, timeMs |-> att[id].timeMs]]
    /\ \E due \in [ProblemIds -> CallDueOptions] : dueReviews = DueEntries(due, 1)
    /\ pickOut = Null
    /\ AppIdle

\* what every picker call leaves behind; a call is followed by calls of the
\* same function only
PickerCall(out) ==
    /\ schedOut = Null
    /\ IF pickOut = Null THEN TRUE ELSE pickOut.op = out.op
    /\ pickOut' = out
    /\ allProblems' = arrayAfterPick(allProblems)
    /\ UNCHANGED <<schedVars, targetSeconds, latestAttempts, dueReviews, appVars>>

QuickSessionCall ==
    PickerCall([op |-> "pickQuickSession",
                result |-> pickQuickSession(targetSeconds, allProblems,
                                            latestAttempts, dueReviews)])

ReviewSessionCall ==
    \E maxCount \in CallCounts :
        PickerCall([op |-> "pickReviewSession", maxCount |-> maxCount,
                    result |-> pickReviewSession(allProblems, latestAttempts,
                                                 dueReviews, maxCount)])

SpeedSessionCall ==
    \E maxCount \in CallCounts :
        PickerCall([op |-> "pickSpeedSession", maxCount |-> maxCount,
                    result |-> pickSpeedSession(allProblems, latestAttempts, maxCount)])

WeaknessTestCall ==
    \E count \in {1, DefaultCount} :
        PickerCall([op |-> "pickWeaknessTest", count |-> count,
                    result |-> pickWeaknessTest(allProblems, latestAttempts, count)])

RecommendationsCall ==
    PickerCall([op |-> "generateRecommendations",
                result |-> generateRecommendations(clock, allProblems,
                               mapEntries(latestAttempts), dueReviews)])

\* computeNextReview builds its result from the fields it reads
NextReviewCall ==
    /\ pickOut = Null
    /\ \E id \in ProblemIds, isCorrect \in BOOLEAN :
          schedOut' = [op |-> "computeNextReview", problemId |-> id,
                       isCorrect |-> isCorrect,
                       result |-> computeNextReview(tz, clock, id, isCorrect, item)]
    /\ UNCHANGED <<tz, clock, item, pickVars, appVars>>

NextCalls ==
    \/ QuickSessionCall
    \/ ReviewSessionCall
    \/ SpeedSessionCall
    \/ WeaknessTestCall
    \/ RecommendationsCall
    \/ NextReviewCall

SpecCalls == InitCalls /\ [][NextCalls]_vars

-----------------------------------------------------------------------------
(* The Map latestAttempts as the three screens build it from the stored rows *)

\* SELECT * FROM attempts WHERE answeredAt >= sinceDate ORDER BY answeredAt DESC
getAttemptsSince(table, sinceDate) ==
    getAllAttempts(SelectSeq(table, LAMBDA r : localeCompare(r.answeredAt, sinceDate) >= 0))

\* the entries of the Map in insertion order: of each problem the first row
latestEntriesOf(attempts) ==
    LET first == SelectSeq([i \in DOMAIN attempts |-> i],
                           LAMBDA i : \A j \in 1..(i - 1) :
                                         attempts[j].problemId # attempts[i].problemId)
    IN  [k \in DOMAIN first |-> attempts[first[k]]]

\* the moment the screens are opened, and the times of the stored attempts:
\* sixteen days, six days and one day before
MapNow == MakeDate(20, 12)
MapTimes == <<MakeDate(4, 10), MakeDate(14, 15), MakeDate(19, 9)>>

\* the rows that may be stored: each problem answered at each of the times,
\* right and slowly except at the second time
MapRows ==
    [k \in 1..(Len(SAMPLE_PROBLEMS) * Len(MapTimes)) |->
        LET problem == SAMPLE_PROBLEMS[((k - 1) \div Len(MapTimes)) + 1]
            at == MapTimes[((k - 1) % Len(MapTimes)) + 1]
        IN  [id |-> [problemId |-> problem.id, test |-> FALSE, now |-> at, i |-> 0],
             problemId |-> problem.id,
             answeredAt |-> toISOString(at),
             isCorrect |-> at # MapTimes[2],
             selectedIndex |-> IF at # MapTimes[2] THEN problem.correctIndex ELSE 0,
             timeMs |-> 80000]]

Reverse(seq) == [i \in DOMAIN seq |-> seq[Len(seq) + 1 - i]]

InitMap ==
    /\ tz \in { z \in TimeZones : z.name = "Asia/Tokyo" }
    /\ clock = MapNow
    /\ item = Null
    /\ schedOut = Null
    /\ PickIdle
    /\ \E stored \in [DOMAIN MapRows -> BOOLEAN], reversed \in BOOLEAN :
          LET kept == SelectSeq([i \in DOMAIN MapRows |-> i], LAMBDA i : stored[i])
              rows == [k \in DOMAIN kept |-> MapRows[kept[k]]]
          IN  attemptsTable = IF reversed THEN Reverse(rows) ELSE rows
    /\ reviewQueue = <<>>
    /\ sessionTable = <<>>
    /\ testResults = <<>>
    /\ dbFailed = NoFailure
    /\ route = "tabs"
    /\ home = HomeUnloaded
    /\ question = QuestionUnmounted
    /\ test = TestUnmounted

\* QuestionScreen, the mount effect of a picked session: the Map and the pick
MountBuildsMap ==
    /\ \E mode \in {"quick", "review", "speed"} :
          pickOut' = [op |-> "QuestionScreen", mode |-> mode,
                      result |-> pickedFor(mode, DefaultDuration)]
    /\ latestAttempts' = latestAttemptsOf(getAllAttempts(attemptsTable))
    /\ UNCHANGED <<schedVars, targetSeconds, allProblems, dueReviews, appVars>>

\* startWeaknessTest: the Map, and the test when five problems have been answered
WeaknessBuildsMap ==
    /\ latestAttempts' = latestAttemptsOf(getAllAttempts(attemptsTable))
    /\ pickOut' = [op |-> "startWeaknessTest",
                   result |-> IF Cardinality(DOMAIN latestAttempts') < 5 THEN <<>>
                              ELSE pickWeaknessTest(SAMPLE_PROBLEMS, latestAttempts', 10)]
    /\ UNCHANGED <<schedVars, targetSeconds, allProblems, dueReviews, appVars>>

\* HomeScreen.loadData: the Map is built from the attempts of the last seven
\* days, and the recommendations from that Map
HomeBuildsMap ==
    LET sevenDaysAgo == setDate(tz, clock, getDate(tz, clock) - 7)
        weeklyAttempts == getAttemptsSince(attemptsTable, toISOString(sevenDaysAgo))
    IN  /\ latestAttempts' = latestAttemptsOf(weeklyAttempts)
        /\ pickOut' = [op |-> "HomeScreen",
                       result |-> generateRecommendations(clock, SAMPLE_PROBLEMS,
                                      latestEntriesOf(weeklyAttempts),
                                      getDueReviews(reviewQueue, clock))]
        /\ UNCHANGED <<schedVars, targetSeconds, allProblems, dueReviews, appVars>>

NextMap == MountBuildsMap \/ WeaknessBuildsMap \/ HomeBuildsMap

SpecMap == InitMap /\ [][NextMap]_vars

-----------------------------------------------------------------------------
(* The settings and the quick session the question screen starts with them *)

DEFAULT_SETTINGS ==
    [timerVisible |-> TRUE, timerPosition |-> "top-right", timerShowDigits |-> TRUE,
     targetTimeSec |-> 45, learningMode |-> "focus", offlineMode |-> "all",
     resumeTimerBehavior |-> "continue"]

\* { ...DEFAULT_SETTINGS, ...JSON.parse(row.value) }, the defaults without a row
getSettings(row) ==
    IF row = Null THEN DEFAULT_SETTINGS
    ELSE [f \in DOMAIN DEFAULT_SETTINGS \cup DOMAIN row |->
             IF f \in DOMAIN row THEN row[f] ELSE DEFAULT_SETTINGS[f]]

\* the target times the settings screen offers
TargetTimeChips == {30, 45, 50, 60}

\* the row app_settings: none, or what updateSetting("targetTimeSec", sec) saved
SettingsRows ==
    {Null} \cup { [DEFAULT_SETTINGS EXCEPT !.targetTimeSec = sec] : sec \in TargetTimeChips }

InitSettings ==
    /\ targetSeconds \in QuickDurations
    /\ allProblems \in Catalogs
    /\ latestAttempts \in LatestAttemptsDrawn
    /\ dueReviews = <<>>
    /\ pickOut = Null
    /\ SchedIdle
    /\ AppIdle

\* the question screen's start of a quick session: the settings are read,
\* then the session is picked; the settings read are kept with the call
QuickSessionWithSettings ==
    /\ pickOut = Null
    /\ \E row \in SettingsRows :
          pickOut' = [op |-> "pickQuickSession", settings |-> getSettings(row),
                      result |-> pickQuickSession(targetSeconds, allProblems,
                                                  latestAttempts, dueReviews)]
    /\ UNCHANGED <<schedVars, targetSeconds, allProblems, latestAttempts, dueReviews, appVars>>

NextSettings == QuickSessionWithSettings

SpecSettings == InitSettings /\ [][NextSettings]_vars

-----------------------------------------------------------------------------
(* useCountdownTimer on its own: start, pause, reset and the interval *)

\* Here the clock is Date.now() in milliseconds and test.countdown is the
\* whole hook: its argument durationMs, its state elapsedMs and isRunning,
\* its refs, the intervals setInterval has made and clearInterval has not
\* cleared (intervalRef 0 is null), and the calls of onExpire since the
\* last reset.

TickMs == 100
MaxIntervals == 6
CountdownDurations == {0, 200, 300}

CountdownInitial(durationMs) ==
    [durationMs |-> durationMs, elapsedMs |-> 0, isRunning |-> FALSE,
     intervalRef |-> 0, startTimeRef |-> 0, accumulatedRef |-> 0,
     expiredRef |-> FALSE, intervals |-> {}, onExpireCalls |-> 0]

\* stop: if (intervalRef.current) { clearInterval(...); intervalRef.current = null }
stop(c) ==
    IF c.intervalRef # 0
    THEN [c EXCEPT !.intervals = @ \ {c.intervalRef}, !.intervalRef = 0]
    ELSE c

stopBeforeStart_Skipped(c) == c

\* the stop() that start calls before it sets the next interval
stopBeforeStart(c) == stop(c)

expires_Unguarded(c, total) == total >= c.durationMs

\* total >= durationMs && !expiredRef.current
expires(c, total) == total >= c.durationMs /\ ~c.expiredRef

\* start(): nothing once expired; else a new interval in place of the old
start(c, now) ==
    IF c.expiredRef THEN c
    ELSE LET stopped == stopBeforeStart(c)
             id == 1 + Cardinality(stopped.intervals)
         IN  [stopped EXCEPT !.startTimeRef = now, !.isRunning = TRUE,
                             !.intervalRef = id, !.intervals = @ \cup {id}]

\* the callback of an interval
tick(c, now) ==
    LET total == c.accumulatedRef + (now - c.startTimeRef)
    IN  IF expires(c, total)
        THEN [c EXCEPT !.elapsedMs = total, !.expiredRef = TRUE,
                       !.onExpireCalls = @ + 1]
        ELSE [c EXCEPT !.elapsedMs = total]

pause(c, now) ==
    LET added == IF c.isRunning
                 THEN [c EXCEPT !.accumulatedRef = @ + (now - c.startTimeRef),
                                !.elapsedMs = c.accumulatedRef + (now - c.startTimeRef)]
                 ELSE c
    IN  [stop(added) EXCEPT !.isRunning = FALSE]

reset(c) ==
    [stop(c) EXCEPT !.accumulatedRef = 0, !.elapsedMs = 0, !.isRunning = FALSE,
                    !.expiredRef = FALSE, !.onExpireCalls = 0]

\* Math.max(0, durationMs - elapsedMs)
remainingMs(c) == Max(0, c.durationMs - c.elapsedMs)

InitCountdown ==
    /\ SchedIdle
    /\ targetSeconds = 0
    /\ allProblems = <<>>
    /\ latestAttempts = <<>>
    /\ dueReviews = <<>>
    /\ pickOut = Null
    /\ attemptsTable = <<>>
    /\ reviewQueue = <<>>
    /\ sessionTable = <<>>
    /\ testResults = <<>>
    /\ dbFailed = {}
    /\ route = "test-session"
    /\ home = HomeUnloaded
    /\ question = QuestionUnmounted
    /\ \E durationMs \in CountdownDurations :
          test = [TestUnmounted EXCEPT !.countdown = CountdownInitial(durationMs)]

CountdownUnchanged ==
    UNCHANGED <<tz, item, schedOut, pickVars, dbVars, route, home, question>>

\* 100 ms pass
TimePasses ==
    /\ clock < MaxIntervals * TickMs
    /\ clock' = clock + TickMs
    /\ UNCHANGED test
    /\ CountdownUnchanged

CountdownStart ==
    /\ test' = [test EXCEPT !.countdown = start(@, clock)]
    /\ UNCHANGED clock
    /\ CountdownUnchanged

\* an interval that is not cleared runs its callback
CountdownTick ==
    /\ test.countdown.intervals # {}
    /\ test' = [test EXCEPT !.countdown = tick(@, clock)]
    /\ UNCHANGED clock
    /\ CountdownUnchanged

CountdownPause ==
    /\ test' = [test EXCEPT !.countdown = pause(@, clock)]
    /\ UNCHANGED clock
    /\ CountdownUnchanged

CountdownReset ==
    /\ test' = [test EXCEPT !.countdown = reset(@)]
    /\ UNCHANGED clock
    /\ CountdownUnchanged

NextCountdown ==
    \/ TimePasses
    \/ CountdownStart
    \/ CountdownTick
    \/ CountdownPause
    \/ CountdownReset

SpecCountdown == InitCountdown /\ [][NextCountdown]_vars

-----------------------------------------------------------------------------
(* The application with a session stored earlier: resume *)

\* what "保存して戻る" stored at PriorTime for a session of these problems
PriorSessions ==
    { [id |-> PriorTime, type |-> "quick", problemIds |-> idsOf(problems),
       currentIndex |-> currentIndex, answers |-> <<>>,
       startedAt |-> toISOString(PriorTime), elapsedMs |-> elapsedMs] :
      problems \in UNION { Selections(n) : n \in 1..Len(SAMPLE_PROBLEMS) },
      currentIndex \in 0..(Len(SAMPLE_PROBLEMS) - 1),
      elapsedMs \in TimerValues }

InitResume ==
    /\ tz \in { z \in TimeZones : z.name = "Asia/Tokyo" }
    /\ clock = StartClock
    /\ item = Null
    /\ schedOut = Null
    /\ PickIdle
    /\ attemptsTable = <<>>
    /\ reviewQueue = <<>>
    /\ \E session \in PriorSessions :
          /\ session.currentIndex < Len(session.problemIds)
          /\ sessionTable = <<session>>
    /\ testResults = <<>>
    /\ dbFailed = NoFailure
    /\ route = "tabs"
    /\ home = HomeUnloaded
    /\ question = QuestionUnmounted
    /\ test = TestUnmounted

\* the home screen and the question screen it opens in resume mode only
NextResume ==
    \/ HomeRefresh
    \/ OpenResume
    \/ TimerTick
    \/ handleSelectChoice
    \/ handleConfirm
    \/ handleNext
    \/ handleBackSave
    \/ handleBackDiscard

SpecResume == InitResume /\ [][NextResume]_vars

-----------------------------------------------------------------------------
(* Properties of the scheduler *)

\* s of the call in schedOut: the stage of currentItem, 0 when it is null
PriorStage == IF item = Null THEN 0 ELSE item.stage

Computed == schedOut # Null /\ schedOut.op = "computeNextReview"

Returned == Computed /\ schedOut.result # RangeError

\* the days between the local calendar day of the call and that of nextReviewAt
ScheduledDays ==
    LocalDay(tz, DateParse(schedOut.result.nextReviewAt)) - LocalDay(tz, clock)

\* C1: computeNextReview returns stage s + 1 for a correct answer and
\* max(s - 1, 0) for an incorrect one, where s >= 0 is the stage of the prior
\* entry (0 when there is none); the returned stage is never negative and a
\* correct answer raises it at every s, with no upper limit.
C1_StageWalk ==
    Computed =>
        /\ Returned
        /\ schedOut.result.stage >= 0
        /\ schedOut.isCorrect => schedOut.result.stage = PriorStage + 1
        /\ (~schedOut.isCorrect /\ PriorStage = 0) => schedOut.result.stage = 0
        /\ (~schedOut.isCorrect /\ PriorStage > 0) =>
              schedOut.result.stage = PriorStage - 1

C1_Witness ==
    /\ Returned
    /\ ~schedOut.isCorrect
    /\ item # Null /\ item.stage = 0
    /\ schedOut.result.stage = 0

\* C3: whenever the new stage is 4 or more, the entry is scheduled 30 days
\* ahead (the last entry of the table), and no stage makes the table lookup
\* fall outside indices 0..4: the call always returns an entry.
C3_IntervalClamp ==
    Computed =>
        /\ Returned
        /\ schedOut.result.stage >= 4 => ScheduledDays = 30

C3_Witness ==
    /\ Returned
    /\ schedOut.result.stage = 10
    /\ ScheduledDays = 30

\* the table [1, 3, 7, 14, 30] read at min(n, 4), written out
TableDays(n) ==
    IF n = 0 THEN 1 ELSE IF n = 1 THEN 3 ELSE IF n = 2 THEN 7
    ELSE IF n = 3 THEN 14 ELSE 30

\* C4: nextReviewAt lies table[min(newStage, 4)] whole calendar days after
\* the day of the call, newStage being the returned stage; in a zone without
\* clock changes that is exactly 24 hours per day.  A correct answer with no
\* prior entry gives stage 1 and 3 days, an incorrect answer at stage 0 gives
\* stage 0 and 1 day.
C4_NextReviewDate ==
    Returned =>
        /\ ScheduledDays = TableDays(schedOut.result.stage)
        /\ ~tz.dst => DateParse(schedOut.result.nextReviewAt) =
                         clock + 24 * TableDays(schedOut.result.stage)
        /\ (item = Null /\ schedOut.isCorrect) =>
              (schedOut.result.stage = 1 /\ ScheduledDays = 3)
        /\ (item # Null /\ item.stage = 0 /\ ~schedOut.isCorrect) =>
              (schedOut.result.stage = 0 /\ ScheduledDays = 1)

C4_Witness ==
    /\ Returned
    /\ item = Null /\ schedOut.isCorrect
    /\ schedOut.result.stage = 1 /\ ScheduledDays = 3
    /\ tz.dst
    /\ DateParse(schedOut.result.nextReviewAt) # clock + 72

\* s < t for two ISO strings, field by field
IsoBefore(s, t) ==
    \E i \in 1..4 : s[i] < t[i] /\ \A j \in 1..(i - 1) : s[j] = t[j]

\* C5: isReviewDue is true exactly when nextReviewAt is at or before the
\* current time: due at nextReviewAt = now, never due when nextReviewAt is
\* later than now.
C5_DueCheck ==
    (schedOut # Null /\ schedOut.op = "isReviewDue") =>
        (schedOut.result <=> ~IsoBefore(toISOString(clock), item.nextReviewAt))

C5_Witness ==
    /\ schedOut # Null /\ schedOut.op = "isReviewDue"
    /\ item.nextReviewAt = toISOString(clock)
    /\ schedOut.result = TRUE

-----------------------------------------------------------------------------
(* Properties of pickQuickSession *)

QuickPicked == pickOut # Null /\ pickOut.op = "pickQuickSession"

\* the ids of the returned problems, in order
PickedIds == [i \in DOMAIN pickOut.result |-> pickOut.result[i].id]

\* membership of a catalog problem in the four pools, from the arguments
HasAttempt(p) == p.id \in DOMAIN latestAttempts

\* the category target times in seconds, written out
TargetSec(category) ==
    IF category = "bar" THEN 45 ELSE IF category = "pie" THEN 40 ELSE 55

InDuePool(p) == \E i \in DOMAIN dueReviews : dueReviews[i].problemId = p.id

InSlowPool(p) ==
    /\ HasAttempt(p)
    /\ latestAttempts[p.id].isCorrect
    /\ latestAttempts[p.id].timeMs > 1000 * TargetSec(p.category)

InWrongPool(p) == HasAttempt(p) /\ ~latestAttempts[p.id].isCorrect

InUnseenPool(p) == ~HasAttempt(p)

PoolCount(p) ==
    (IF InDuePool(p) THEN 1 ELSE 0) + (IF InSlowPool(p) THEN 1 ELSE 0) +
    (IF InWrongPool(p) THEN 1 ELSE 0) + (IF InUnseenPool(p) THEN 1 ELSE 0)

\* the first pool a problem belongs to: 1 due, 2 slow, 3 wrong, 4 unseen,
\* 5 when it is in none
FirstPool(p) ==
    IF InDuePool(p) THEN 1 ELSE IF InSlowPool(p) THEN 2
    ELSE IF InWrongPool(p) THEN 3 ELSE IF InUnseenPool(p) THEN 4 ELSE 5

\* C6: no question id appears twice in the output of pickQuickSession, and
\* a question that qualifies for several pools stands where its first pool
\* puts it: nothing of a later pool before it, nothing of an earlier pool
\* after it.
C6_NoDuplicate ==
    QuickPicked =>
        LET out == pickOut.result
        IN  /\ \A i, j \in DOMAIN out : i # j => out[i].id # out[j].id
            /\ \A i \in DOMAIN out :
                  PoolCount(out[i]) > 1 =>
                     /\ \A j \in 1..(i - 1) : FirstPool(out[j]) <= FirstPool(out[i])
                     /\ \A j \in (i + 1)..Len(out) :
                           FirstPool(out[j]) >= FirstPool(out[i])

C6_Witness ==
    /\ QuickPicked
    /\ Len(pickOut.result) = MaxProblems
    /\ \E i \in DOMAIN pickOut.result :
          /\ i > 1
          /\ InDuePool(pickOut.result[i])
          /\ InSlowPool(pickOut.result[i])
    /\ \E i \in DOMAIN pickOut.result :
          InDuePool(pickOut.result[i]) /\ InWrongPool(pickOut.result[i])

\* C7: the pools are consumed in the order due, slow-but-correct, recently
\* wrong, unseen: in the output every question of a higher-priority pool
\* comes before every question of a lower-priority one, and a question is
\* only selected when every catalog question of a higher-priority pool has
\* been selected.
C7_PoolPriority ==
    QuickPicked =>
        LET out == pickOut.result
        IN  /\ \A i, j \in DOMAIN out : i < j => FirstPool(out[i]) <= FirstPool(out[j])
            /\ \A i \in DOMAIN out : \A k \in DOMAIN allProblems :
                  FirstPool(allProblems[k]) < FirstPool(out[i]) =>
                      \E j \in 1..(i - 1) : out[j] = allProblems[k]

C7_Witness ==
    /\ QuickPicked
    /\ Len(pickOut.result) = 2
    /\ FirstPool(pickOut.result[1]) = 2
    /\ FirstPool(pickOut.result[2]) = 3
    /\ allProblems[1] = pickOut.result[2]
    /\ \E k \in DOMAIN allProblems :
          FirstPool(allProblems[k]) = 4 /\ allProblems[k] \notin Range(pickOut.result)

RECURSIVE SumTargetSec(_)
SumTargetSec(seq) ==
    IF seq = <<>> THEN 0
    ELSE TargetSec(seq[1].category) + SumTargetSec(Tail(seq))

RECURSIVE Dedup(_, _)
Dedup(seq, seen) ==
    IF seq = <<>> THEN <<>>
    ELSE IF seq[1].id \in seen THEN Dedup(Tail(seq), seen)
    ELSE <<seq[1]>> \o Dedup(Tail(seq), seen \cup {seq[1].id})

\* the four pools one after the other, each question once
PoolSequence ==
    LET ps == pools(allProblems, latestAttempts, dueReviews)
    IN  Dedup(ps[1] \o ps[2] \o ps[3] \o ps[4], {})

\* C8 as stated: the output is the shortest prefix of the de-duplicated pool
\* sequence whose category target times sum to targetSeconds or more, so all
\* but its last element sum to less than targetSeconds; it is the whole
\* sequence when that sums to less than the target; a question in none of
\* the pools is never returned.
C8_BudgetAsStated ==
    QuickPicked =>
        LET out == pickOut.result
            n   == Len(out)
        IN  /\ n <= Len(PoolSequence)
            /\ out = SubSeq(PoolSequence, 1, n)
            /\ n > 0 => SumTargetSec(SubSeq(out, 1, n - 1)) < targetSeconds
            /\ n < Len(PoolSequence) => SumTargetSec(out) >= targetSeconds
            /\ SumTargetSec(PoolSequence) < targetSeconds => out = PoolSequence
            /\ \A i \in DOMAIN out : FirstPool(out[i]) < 5

\* C8: the output is the shortest non-empty prefix of the de-duplicated pool
\* sequence whose category target times sum to targetSeconds or more (the
\* first question is taken before the budget is looked at, so the output is
\* empty only when the sequence is); when targetSeconds > 0 all but its last
\* element sum to less than targetSeconds; it is the whole sequence when
\* that sums to less than the target; a question in none of the pools is
\* never returned.
C8_Budget ==
    QuickPicked =>
        LET out == pickOut.result
            n   == Len(out)
        IN  /\ n <= Len(PoolSequence)
            /\ out = SubSeq(PoolSequence, 1, n)
            /\ PoolSequence # <<>> => n >= 1
            /\ n > 1 => SumTargetSec(SubSeq(out, 1, n - 1)) < targetSeconds
            /\ (n > 0 /\ targetSeconds > 0) =>
                  SumTargetSec(SubSeq(out, 1, n - 1)) < targetSeconds
            /\ n < Len(PoolSequence) => SumTargetSec(out) >= targetSeconds
            /\ SumTargetSec(PoolSequence) < targetSeconds => out = PoolSequence
            /\ \A i \in DOMAIN out : FirstPool(out[i]) < 5

C8_Witness ==
    /\ QuickPicked
    /\ targetSeconds = 100
    /\ Len(pickOut.result) = 2
    /\ SumTargetSec(pickOut.result) = 100
    /\ Len(PoolSequence) = 3

C8_WitnessUnderBudget ==
    /\ QuickPicked
    /\ targetSeconds = 180
    /\ Len(pickOut.result) = 2
    /\ \E k \in DOMAIN allProblems : FirstPool(allProblems[k]) = 5

\* C9: with targetSeconds = 0 the output holds at most one question, the
\* first question of the highest-priority pool that is not empty, and is
\* empty when all four pools are.
C9_ZeroTarget ==
    (QuickPicked /\ targetSeconds = 0) =>
        LET out == pickOut.result
            ps  == pools(allProblems, latestAttempts, dueReviews)
            nonEmpty == { k \in DOMAIN ps : ps[k] # <<>> }
        IN  /\ Len(out) <= 1
            /\ nonEmpty = {} => out = <<>>
            /\ nonEmpty # {} =>
                  \E k \in nonEmpty :
                     /\ \A j \in nonEmpty : k <= j
                     /\ out = <<ps[k][1]>>
                     /\ FirstPool(out[1]) = k

C9_Witness ==
    /\ QuickPicked
    /\ targetSeconds = 0
    /\ Len(pickOut.result) = 1
    /\ FirstPool(pickOut.result[1]) = 3
    /\ Len(PoolSequence) = 3

\* the scenario: catalog A (table), B (bar), C (pie); A answered correctly in
\* 80 s, B answered incorrectly, C never attempted; nothing due; target 60 s
Scenario ==
    /\ QuickPicked
    /\ targetSeconds = 60
    /\ Len(allProblems) = 3
    /\ allProblems[1].id = "A" /\ allProblems[1].category = "table"
    /\ allProblems[2].id = "B" /\ allProblems[2].category = "bar"
    /\ allProblems[3].id = "C" /\ allProblems[3].category = "pie"
    /\ DOMAIN latestAttempts = {"A", "B"}
    /\ latestAttempts["A"].isCorrect /\ latestAttempts["A"].timeMs = 80000
    /\ ~latestAttempts["B"].isCorrect
    /\ dueReviews = <<>>

\* C10 as stated: in the scenario pickQuickSession returns [B, A], the wrong
\* question before the slow one, without C.
C10_ScenarioWrongFirst == Scenario => PickedIds = <<"B", "A">>

\* C10: in the scenario pickQuickSession returns exactly [A, B], the slow
\* question before the wrong one, and C is not included.
C10_ScenarioSlowFirst == Scenario => PickedIds = <<"A", "B">>

C10_Witness == Scenario /\ Len(pickOut.result) = 2

\* the place of a problem in the catalog
CatalogIndex(p) == CHOOSE i \in DOMAIN allProblems : allProblems[i] = p

\* the instant of the due entry of a problem
DueInstant(p) ==
    DateParse(dueReviews[CHOOSE i \in DOMAIN dueReviews :
                            dueReviews[i].problemId = p.id].nextReviewAt)

\* a stands before b by the key of pool k
Precedes(k, a, b) ==
    IF k = 1 THEN DueInstant(a) < DueInstant(b)
    ELSE IF k = 2 THEN latestAttempts[a.id].timeMs > latestAttempts[b.id].timeMs
    ELSE IF k = 3 THEN DateParse(latestAttempts[a.id].answeredAt) >
                       DateParse(latestAttempts[b.id].answeredAt)
    ELSE a.difficulty < b.difficulty

\* a may stand before b in pool k: by the key, or by the catalog when the
\* keys are equal
InPoolOrder(k, a, b) ==
    \/ Precedes(k, a, b)
    \/ ~Precedes(k, b, a) /\ CatalogIndex(a) < CatalogIndex(b)

InPool(k, p) ==
    IF k = 1 THEN InDuePool(p) ELSE IF k = 2 THEN InSlowPool(p)
    ELSE IF k = 3 THEN InWrongPool(p) ELSE InUnseenPool(p)

\* C11: each pool of pickQuickSession holds its questions once, the due ones
\* ascending by nextReviewAt, the slow ones descending by the time of the
\* latest attempt, the wrong ones descending by the timestamp of the latest
\* attempt, the unseen ones ascending by difficulty, questions with equal
\* keys in catalog order; the questions the output takes from one pool
\* stand in that order.
C11_PoolOrder ==
    QuickPicked =>
        LET ps == pools(allProblems, latestAttempts, dueReviews)
            out == pickOut.result
        IN  /\ \A k \in 1..4 :
                  /\ Range(ps[k]) = { p \in Range(allProblems) : InPool(k, p) }
                  /\ Len(ps[k]) = Cardinality(Range(ps[k]))
                  /\ \A i, j \in DOMAIN ps[k] :
                        i < j => InPoolOrder(k, ps[k][i], ps[k][j])
            /\ \A i, j \in DOMAIN out :
                  (i < j /\ FirstPool(out[i]) = FirstPool(out[j])) =>
                      InPoolOrder(FirstPool(out[i]), out[i], out[j])

\* three wrong answers are returned, the latest first although it is the
\* last of the catalog, the two others, of one instant, in catalog order
C11_Witness ==
    /\ QuickPicked
    /\ Len(pickOut.result) = 3
    /\ \A i \in 1..3 : FirstPool(pickOut.result[i]) = 3
    /\ CatalogIndex(pickOut.result[1]) = 3
    /\ Precedes(3, pickOut.result[1], pickOut.result[2])
    /\ ~Precedes(3, pickOut.result[2], pickOut.result[3])
    /\ ~Precedes(3, pickOut.result[3], pickOut.result[2])

-----------------------------------------------------------------------------
(* Properties of pickReviewSession and pickSpeedSession *)

ReviewPicked == pickOut # Null /\ pickOut.op = "pickReviewSession"

IsReviewCandidate(p) == InDuePool(p) \/ InWrongPool(p)

\* the group of a candidate: 0 due, 1 not due
DueGroup(p) == IF InDuePool(p) THEN 0 ELSE 1

\* the instant of the latest attempt, before every instant when there is none
AttemptInstant(p) ==
    IF HasAttempt(p) THEN DateParse(latestAttempts[p.id].answeredAt) ELSE 0 - 1

\* a does not have to stand behind b in a review session
ReviewNotAfter(a, b) ==
    \/ DueGroup(a) < DueGroup(b)
    \/ DueGroup(a) = DueGroup(b) /\ AttemptInstant(a) <= AttemptInstant(b)

\* C12: pickReviewSession returns min(maxCount, k) of the k catalog questions
\* that are in dueReviews or whose latest attempt is incorrect, each once and
\* no other question; the due ones before the others, each group ascending
\* by the timestamp of the latest attempt, a question without attempt first
\* in its group; what is left out stands behind all that is returned.
C12_ReviewSession ==
    ReviewPicked =>
        LET out == pickOut.result
            candidates == { p \in Range(allProblems) : IsReviewCandidate(p) }
        IN  /\ Len(out) = Min(pickOut.maxCount, Cardinality(candidates))
            /\ Range(out) \subseteq candidates
            /\ Cardinality(Range(out)) = Len(out)
            /\ \A i, j \in DOMAIN out : i < j => ReviewNotAfter(out[i], out[j])
            /\ \A c \in candidates \ Range(out) :
                  \A i \in DOMAIN out : ReviewNotAfter(out[i], c)

\* three candidates, two returned: a due question never attempted, then a
\* due question with an attempt; a wrong one that is not due is left out
C12_Witness ==
    /\ ReviewPicked
    /\ pickOut.maxCount = 2
    /\ Len(pickOut.result) = 2
    /\ InDuePool(pickOut.result[1]) /\ ~HasAttempt(pickOut.result[1])
    /\ InDuePool(pickOut.result[2]) /\ HasAttempt(pickOut.result[2])
    /\ CatalogIndex(pickOut.result[1]) > CatalogIndex(pickOut.result[2])
    /\ \E p \in Range(allProblems) :
          InWrongPool(p) /\ ~InDuePool(p) /\ p \notin Range(pickOut.result)

\* the default of maxCount is in force and cuts nothing
C12_WitnessDefault ==
    /\ ReviewPicked
    /\ pickOut.maxCount = DefaultMaxCount
    /\ Len(pickOut.result) = MaxProblems

SpeedPicked == pickOut # Null /\ pickOut.op = "pickSpeedSession"

\* C13: pickSpeedSession returns only questions whose latest attempt is
\* correct and took more than the category's target time, the slowest first,
\* at most maxCount of them; it is the first maxCount questions of pool 2 of
\* pickQuickSession, and with no due entry and a budget that admits them all
\* pickQuickSession starts with exactly these questions.
C13_SpeedSession ==
    SpeedPicked =>
        LET out == pickOut.result
            slow == { p \in Range(allProblems) : InSlowPool(p) }
            pool2 == pools(allProblems, latestAttempts, <<>>)[2]
            quick == pickQuickSession(SumTargetSec(allProblems) + 1, allProblems,
                                      latestAttempts, <<>>)
        IN  /\ Range(out) \subseteq slow
            /\ Len(out) = Min(pickOut.maxCount, Cardinality(slow))
            /\ \A i, j \in DOMAIN out :
                  i < j => latestAttempts[out[i].id].timeMs >=
                           latestAttempts[out[j].id].timeMs
            /\ out = SubSeq(pool2, 1, Len(out))
            /\ out = SubSeq(quick, 1, Len(out))
            /\ \A i \in (Cardinality(slow) + 1)..Len(quick) : ~InSlowPool(quick[i])

\* two slow questions of different times, the slower one later in the
\* catalog, both returned
C13_Witness ==
    /\ SpeedPicked
    /\ Len(pickOut.result) = 2
    /\ latestAttempts[pickOut.result[1].id].timeMs >
          latestAttempts[pickOut.result[2].id].timeMs
    /\ CatalogIndex(pickOut.result[1]) > CatalogIndex(pickOut.result[2])
    /\ \E p \in Range(allProblems) : HasAttempt(p) /\ ~InSlowPool(p)

-----------------------------------------------------------------------------
(* Properties of pickWeaknessTest *)

WeakPicked == pickOut # Null /\ pickOut.op = "pickWeaknessTest"

\* ten points for a wrong latest attempt plus the seconds over the target
\* time of the category, in thousandths of a point
Score(p) ==
    LET a == latestAttempts[p.id]
        over == a.timeMs - TargetSec(p.category) * 1000
    IN  (IF a.isCorrect THEN 0 ELSE 10000) + Max(0, over)

Attempted == { p \in Range(allProblems) : HasAttempt(p) }

\* C14: pickWeaknessTest returns only questions with a latest attempt, each
\* once, in non-increasing order of score (10 if incorrect, plus the seconds
\* over the target time), min(count, number of attempted questions) of them,
\* and no omitted attempted question scores higher than a returned one.
C14_WeaknessTest ==
    WeakPicked =>
        LET out == pickOut.result
        IN  /\ Range(out) \subseteq Attempted
            /\ Cardinality(Range(out)) = Len(out)
            /\ Len(out) = Min(pickOut.count, Cardinality(Attempted))
            /\ \A i, j \in DOMAIN out : i < j => Score(out[i]) >= Score(out[j])
            /\ \A p \in Attempted \ Range(out) :
                  \A i \in DOMAIN out : Score(p) <= Score(out[i])

\* three attempted questions of three different scores, the two highest
\* returned against the catalog order, one of them correct but slow
C14_Witness ==
    /\ WeakPicked
    /\ pickOut.count = 2
    /\ Cardinality(Attempted) = 3
    /\ Len(pickOut.result) = 2
    /\ Score(pickOut.result[1]) > Score(pickOut.result[2])
    /\ CatalogIndex(pickOut.result[1]) > CatalogIndex(pickOut.result[2])
    /\ latestAttempts[pickOut.result[2].id].isCorrect
    /\ \E p \in Attempted \ Range(pickOut.result) : Score(p) < Score(pickOut.result[2])

Incorrect(p) == HasAttempt(p) /\ ~latestAttempts[p.id].isCorrect

\* answered correctly, over the target time by less than ten seconds
CorrectNearTarget(p) ==
    /\ HasAttempt(p)
    /\ latestAttempts[p.id].isCorrect
    /\ latestAttempts[p.id].timeMs > TargetSec(p.category) * 1000
    /\ latestAttempts[p.id].timeMs - TargetSec(p.category) * 1000 < 10000

Position(seq, p) == CHOOSE i \in DOMAIN seq : seq[i] = p

\* C15: in pickWeaknessTest an incorrectly answered question scores at least
\* 10 and one answered correctly less than 10 s over target scores below 10;
\* the incorrect one stands before the correct one when both are returned,
\* and the correct one is never returned while the incorrect one is left out.
C15_IncorrectFirst ==
    WeakPicked =>
        LET out == pickOut.result
        IN  \A w, c \in Attempted :
                (Incorrect(w) /\ CorrectNearTarget(c)) =>
                    /\ Score(w) >= 10000 /\ Score(c) < 10000
                    /\ (w \in Range(out) /\ c \in Range(out)) =>
                           Position(out, w) < Position(out, c)
                    /\ c \in Range(out) => w \in Range(out)

\* both cases: an incorrect question returned before a correct one that
\* precedes it in the catalog, and, with count 1, the correct one left out
C15_Witness ==
    /\ WeakPicked
    /\ \E w, c \in Attempted :
          /\ Incorrect(w) /\ CorrectNearTarget(c)
          /\ CatalogIndex(c) < CatalogIndex(w)
          /\ w \in Range(pickOut.result)
          /\ c \in Range(pickOut.result)
          /\ latestAttempts[w.id].timeMs < latestAttempts[c.id].timeMs

C15_WitnessCut ==
    /\ WeakPicked
    /\ pickOut.count = 1
    /\ \E w, c \in Attempted :
          /\ Incorrect(w) /\ CorrectNearTarget(c)
          /\ CatalogIndex(c) < CatalogIndex(w)
          /\ pickOut.result = <<w>>

-----------------------------------------------------------------------------
(* Properties of generateRecommendations *)

RecCalled == pickOut # Null /\ pickOut.op = "generateRecommendations"

TypeRank(type) ==
    IF type = "review" THEN 1 ELSE IF type = "speed" THEN 2 ELSE 3

CardsOfType(type) ==
    { pickOut.result[i] : i \in { j \in DOMAIN pickOut.result : pickOut.result[j].type = type } }

\* the entries of dueReviews whose nextReviewAt is not after the present moment
DueNow == { i \in DOMAIN dueReviews : DateParse(dueReviews[i].nextReviewAt) <= clock }

\* the latest attempts stored for a problem
AttemptsFor(p) == { a \in Range(latestAttempts) : a.problemId = p.id }

SlowQuestions ==
    { p \in Range(allProblems) :
        \E a \in AttemptsFor(p) : a.isCorrect /\ a.timeMs > TargetSec(p.category) * 1000 }

AttemptedIn(category) ==
    { p \in Range(allProblems) : p.category = category /\ AttemptsFor(p) # {} }

CorrectIn(category) ==
    { p \in AttemptedIn(category) : \E a \in AttemptsFor(p) : a.isCorrect }

\* the categories with at least three attempted questions
Sampled == { c \in CategoryIds : Cardinality(AttemptedIn(c)) >= 3 }

\* no sampled category has a lower accuracy than c
Weakest(c) ==
    /\ c \in Sampled
    /\ \A d \in Sampled :
          Cardinality(CorrectIn(c)) * Cardinality(AttemptedIn(d)) <=
              Cardinality(CorrectIn(d)) * Cardinality(AttemptedIn(c))

Under70(c) == Cardinality(CorrectIn(c)) * 100 < 70 * Cardinality(AttemptedIn(c))

\* the card types returned for one due entry or none, one slow question or
\* none, and a category of three attempts with one or all of them correct
ExampleTypes(review, speed, weak) ==
    LET out == generateRecommendations(RecNow, RecCatalog,
                   RecAttempts([total |-> 3, correct |-> IF weak THEN 1 ELSE 3],
                               [total |-> 0, correct |-> 0],
                               IF speed THEN 1 ELSE 0, FALSE, FALSE),
                   dueEntriesOf(IF review THEN 1 ELSE 0, FALSE, TRUE))
    IN  { out[i].type : i \in DOMAIN out }

\* C16: generateRecommendations returns at most three cards, their types in
\* the order review, speed, category_weak and none twice; the review card
\* is there iff an entry of dueReviews has nextReviewAt <= now, the speed
\* card iff a question's latest attempt is correct and over the target time
\* of its category, the category_weak card iff the weakest category with
\* three or more attempted questions is under 70%; each of the eight
\* subsets of the three types is returned for some input.
C16_Cards ==
    RecCalled =>
        LET out == pickOut.result
        IN  /\ Len(out) <= 3
            /\ \A i \in DOMAIN out : out[i].type \in {"review", "speed", "category_weak"}
            /\ \A i, j \in DOMAIN out :
                  i < j => TypeRank(out[i].type) < TypeRank(out[j].type)
            /\ CardsOfType("review") # {} <=> DueNow # {}
            /\ CardsOfType("speed") # {} <=> SlowQuestions # {}
            /\ CardsOfType("category_weak") # {} <=>
                  \E c \in Sampled : Weakest(c) /\ Under70(c)
            /\ \A review, speed, weak \in BOOLEAN :
                  ExampleTypes(review, speed, weak) =
                      { t \in {"review", "speed", "category_weak"} :
                          \/ t = "review" /\ review
                          \/ t = "speed" /\ speed
                          \/ t = "category_weak" /\ weak }

\* all three cards are returned
C16_Witness ==
    /\ RecCalled
    /\ Len(pickOut.result) = 3
    /\ pickOut.result[1].type = "review"
    /\ pickOut.result[2].type = "speed"
    /\ pickOut.result[3].type = "category_weak"

\* only the middle card is returned
C16_WitnessSpeedOnly ==
    /\ RecCalled
    /\ Len(pickOut.result) = 1
    /\ pickOut.result[1].type = "speed"
    /\ dueReviews # <<>>
    /\ Sampled # {}

\* m = ceil(a / b)
IsCeil(m, a, b) == m * b >= a /\ (m - 1) * b < a

\* C17: the review card counts the entries of dueReviews whose nextReviewAt
\* is not after the present moment, not the length of dueReviews; with
\* dueCount of them it names min(dueCount, 5) questions and
\* ceil(dueCount * 50 / 60) minutes; the speed card names min(slowCount, 3)
\* questions and ceil(min(slowCount, 3) * 45 / 60) minutes.
C17_CardSizes ==
    RecCalled =>
        LET dueCount == Cardinality(DueNow)
            slowCount == Cardinality(SlowQuestions)
        IN  /\ \A card \in CardsOfType("review") :
                  /\ card.size = Min(dueCount, 5)
                  /\ IsCeil(card.estimatedMinutes, dueCount * 50, 60)
            /\ \A card \in CardsOfType("speed") :
                  /\ card.size = Min(slowCount, 3)
                  /\ IsCeil(card.estimatedMinutes, Min(slowCount, 3) * 45, 60)

\* eight of nine entries are due, four questions are slow: both cards are capped
C17_Witness ==
    /\ RecCalled
    /\ Cardinality(DueNow) = 8
    /\ Len(dueReviews) = 9
    /\ Cardinality(SlowQuestions) = 4
    /\ \E card \in CardsOfType("review") : card.size = 5 /\ card.estimatedMinutes = 7
    /\ \E card \in CardsOfType("speed") : card.size = 3 /\ card.estimatedMinutes = 3

\* C18: the accuracy of a category is correct / total over the catalog
\* questions with a latest attempt; a category with fewer than three
\* attempted questions is never chosen; the card names a category of the
\* lowest accuracy among the others and is returned iff that accuracy is
\* below 70% (at exactly 70% there is no card), with estimatedMinutes 3; an
\* attempt of a question that is not in the catalog counts nowhere.
C18_CategoryWeak ==
    RecCalled =>
        /\ \A card \in CardsOfType("category_weak") :
              /\ Weakest(card.category)
              /\ Under70(card.category)
              /\ card.estimatedMinutes = 3
        /\ (\E c \in Sampled : Weakest(c) /\ Under70(c)) =>
              CardsOfType("category_weak") # {}

\* exactly 70% in the only sampled category, two wrong answers in another
\* one, an attempt of a question outside the catalog: no card
C18_Witness ==
    /\ RecCalled
    /\ Cardinality(AttemptedIn("table")) = 10
    /\ Cardinality(CorrectIn("table")) = 7
    /\ Cardinality(AttemptedIn("bar")) = 2
    /\ CorrectIn("bar") = {}
    /\ ForeignEntry \in Range(latestAttempts)
    /\ CardsOfType("category_weak") = {}

\* the card names the weaker of two sampled categories, the later one in the Map
C18_WitnessCard ==
    /\ RecCalled
    /\ Cardinality(AttemptedIn("table")) = 10
    /\ Cardinality(CorrectIn("table")) = 6
    /\ Cardinality(AttemptedIn("bar")) = 3
    /\ Cardinality(CorrectIn("bar")) = 1
    /\ latestAttempts[1].problemId[1] = "table"
    /\ \E card \in CardsOfType("category_weak") : card.category = "bar"

-----------------------------------------------------------------------------
(* Properties of the answer handlers *)

\* the stage review_queue holds for a problem, 0 when it holds no row
StoredStage(table, problemId) ==
    IF reviewRow(table, problemId) = Null THEN 0 ELSE reviewRow(table, problemId).stage

(* C2: every answer that handleConfirm or finishTest stores moves the stage  *)
(* stored for its problem by one step of the walk: the stage stored before   *)
(* the answer (0 when there is no row) plus 1 when the answer is right, that *)
(* stage minus 1 but not below 0 when it is wrong.  Stated for the steps in  *)
(* which the storage rejects nothing.                                         *)
C2_EndToEndStageWalk ==
    [][dbFailed' = NoFailure =>
          \A a \in Range(attemptsTable') \ Range(attemptsTable) :
             StoredStage(reviewQueue', a.problemId) =
                IF a.isCorrect
                THEN StoredStage(reviewQueue, a.problemId) + 1
                ELSE Max(StoredStage(reviewQueue, a.problemId) - 1, 0)]_vars

\* the schedule entry the handlers compute for a stored attempt
EntryOf(attempt) ==
    computeNextReview(tz, DateParse(attempt.answeredAt), attempt.problemId,
                      attempt.isCorrect, Null)

\* every schedule entry is the entry of an attempt that is stored
EntryHasAttempt ==
    \A r \in Range(reviewQueue) :
        \E a \in Range(attemptsTable) : r = EntryOf(a)

\* a step changes the schedule entry of a problem only together with storing
\* an attempt of that problem, and then to the whole entry of that attempt
EntryFollowsAttempt ==
    \A id \in SampleIds :
        reviewRow(reviewQueue', id) # reviewRow(reviewQueue, id) =>
            \E a \in Range(attemptsTable') \ Range(attemptsTable) :
                /\ a.problemId = id
                /\ reviewRow(reviewQueue', id) = EntryOf(a)

\* a step in which saving an attempt is rejected for every answer it
\* handles leaves the table of schedule entries as it was
FailedAttemptWritesNothing ==
    (/\ dbFailed' # NoFailure
     /\ attemptsTable' = attemptsTable
     /\ \E f \in dbFailed' : f[2] = "saveAttempt") => reviewQueue' = reviewQueue

C19_WitnessAttemptFailed ==
    /\ \E f \in dbFailed : f[2] = "saveAttempt"
    /\ attemptsTable = <<>>
    /\ reviewQueue = <<>>
    /\ route \in {"question", "test-result"}

-----------------------------------------------------------------------------
(* Properties of the schedule store *)

\* no two rows of the review queue have the same problemId
OnePerProblem ==
    \A i, j \in DOMAIN reviewQueue :
        reviewQueue[i].problemId = reviewQueue[j].problemId => i = j

\* a call of upsertReviewItem: afterwards the row of the item's problem is
\* the item, and the rows of the other problems are what they were
UpsertStep ==
    schedOut'.op = "upsertReviewItem" =>
        LET reviewItem == schedOut'.reviewItem
        IN  /\ { r \in Range(reviewQueue') : r.problemId = reviewItem.problemId } = {reviewItem}
            /\ { r \in Range(reviewQueue') : r.problemId # reviewItem.problemId } =
                  { r \in Range(reviewQueue) : r.problemId # reviewItem.problemId }

\* a call of getDueReviews: the rows whose nextReviewAt is not after the
\* present moment, each once, the earliest first
GetDueStep ==
    schedOut'.op = "getDueReviews" =>
        LET result == schedOut'.result
        IN  /\ Range(result) =
                  { r \in Range(reviewQueue) : DateParse(r.nextReviewAt) <= clock }
            /\ Len(result) = Cardinality(Range(result))
            /\ \A i, j \in DOMAIN result :
                  i < j => DateParse(result[i].nextReviewAt) <= DateParse(result[j].nextReviewAt)

(* C20: after any sequence of upsertReviewItem calls the review queue holds  *)
(* at most one row per problemId, the row of a problem is the item upserted  *)
(* last for it and a call leaves the rows of the other problems alone;       *)
(* getDueReviews returns exactly the rows with nextReviewAt <= now, in       *)
(* ascending order of nextReviewAt.                                          *)
C20_ScheduleStore ==
    /\ []OnePerProblem
    /\ [][UpsertStep /\ GetDueStep]_vars

\* three rows, the one not yet due stored first; the two due ones are
\* returned in the reverse of their order in the table, January before
\* February
C20_Witness ==
    /\ schedOut # Null
    /\ schedOut.op = "getDueReviews"
    /\ Len(reviewQueue) = 3
    /\ DateParse(reviewQueue[1].nextReviewAt) > clock
    /\ schedOut.result = <<reviewQueue[3], reviewQueue[2]>>
    /\ reviewQueue[3].nextReviewAt[2] < reviewQueue[2].nextReviewAt[2]

\* an item has replaced the row of its problem
C20_WitnessReplaced ==
    /\ schedOut # Null
    /\ schedOut.op = "upsertReviewItem"
    /\ Len(reviewQueue) = 3
    /\ reviewQueue[3] = schedOut.reviewItem
    /\ schedOut.reviewItem.stage = 1

-----------------------------------------------------------------------------
(* Properties of the pickers called as a library *)

\* the catalog questions without an entry in latestAttempts
Unattempted == { p \in Range(allProblems) : ~HasAttempt(p) }

(* C21: a question with no entry in latestAttempts is in the unseen pool of  *)
(* pickQuickSession and in neither its slow nor its wrong pool, is returned  *)
(* by neither pickSpeedSession nor pickWeaknessTest, and by                  *)
(* pickReviewSession only when it is due; every picker returns a list for    *)
(* arguments with such questions.                                            *)
C21_MissingAttempt ==
    pickOut # Null =>
        /\ ~RecCalled => Range(pickOut.result) \subseteq Range(allProblems)
        /\ QuickPicked =>
              LET ps == pools(allProblems, latestAttempts, dueReviews)
              IN  \A p \in Unattempted :
                      /\ p \notin Range(ps[2])
                      /\ p \notin Range(ps[3])
                      /\ p \in Range(ps[4])
        /\ (SpeedPicked \/ WeakPicked) =>
              \A p \in Unattempted : p \notin Range(pickOut.result)
        /\ ReviewPicked =>
              \A p \in Unattempted : p \in Range(pickOut.result) => InDuePool(p)

\* a review session of a wrong question and a due question never attempted,
\* without a second question never attempted that is not due
C21_Witness ==
    /\ ReviewPicked
    /\ \E p, q \in Unattempted :
          /\ p \in Range(pickOut.result) /\ InDuePool(p)
          /\ q \notin Range(pickOut.result)
    /\ \E w \in Range(pickOut.result) : InWrongPool(w) /\ ~InDuePool(w)

\* a weakness test of all attempted questions, one question left out
C21_WitnessWeak ==
    /\ WeakPicked
    /\ Unattempted # {}
    /\ Len(pickOut.result) = Cardinality(Range(allProblems)) - Cardinality(Unattempted)
    /\ Len(pickOut.result) >= 2

-----------------------------------------------------------------------------
(* Properties of the question screen *)

\* a step that starts a quick, a review or a speed session
StartsSession == \E mode \in {"quick", "review", "speed"} : OpenSession(mode)

\* what the pickers return for the three modes from the rows stored now
PickedNow ==
    { pickedFor(mode, duration) :
        mode \in {"quick", "review", "speed"}, duration \in QuickDurations }

\* min(5, catalog size) distinct questions of the catalog
IsCatalogSample(problems) ==
    /\ Len(problems) = Min(5, Len(SAMPLE_PROBLEMS))
    /\ Range(problems) \subseteq Range(SAMPLE_PROBLEMS)
    /\ \A i, j \in DOMAIN problems : problems[i] = problems[j] => i = j

-----------------------------------------------------------------------------
(* Properties of the Map latestAttempts *)

RowsOf(id) == { r \in Range(attemptsTable) : r.problemId = id }

\* the Map holds for this problem its stored attempt of the greatest
\* answeredAt, or nothing when no attempt is stored
HoldsLatest(id) ==
    IF RowsOf(id) = {} THEN id \notin DOMAIN latestAttempts
    ELSE /\ id \in DOMAIN latestAttempts
         /\ latestAttempts[id] \in RowsOf(id)
         /\ \A r \in RowsOf(id) :
               DateParse(r.answeredAt) <= DateParse(latestAttempts[id].answeredAt)

(* C23: the Map latestAttempts a caller builds from the stored attempts      *)
(* holds, for every question with a stored attempt, exactly the attempt of   *)
(* the greatest answeredAt, and no entry for a question without attempts.    *)
C23_LatestAttemptMap ==
    pickOut # Null =>
        /\ \A id \in SampleIds : HoldsLatest(id)
        /\ DOMAIN latestAttempts \subseteq SampleIds

\* the same for the Map of the question screen and of the weakness test
LatestAttemptMapOfScreens ==
    (pickOut # Null /\ pickOut.op # "HomeScreen") =>
        /\ \A id \in SampleIds : HoldsLatest(id)
        /\ DOMAIN latestAttempts \subseteq SampleIds

\* the home screen has built its Map: a problem answered right but slowly
\* sixteen days ago has no entry, and no speed card is shown for it
HomeMapMissesOldAttempt ==
    /\ pickOut # Null
    /\ pickOut.op = "HomeScreen"
    /\ Len(attemptsTable) = 1
    /\ attemptsTable[1].answeredAt = toISOString(MapTimes[1])
    /\ latestAttempts = <<>>
    /\ pickOut.result = <<>>

-----------------------------------------------------------------------------
(* Properties of the calls as a library: what a call leaves alone *)

\* a recorded call without its result: the function and its arguments
ArgsOf(call) == [f \in DOMAIN call \ {"result"} |-> call[f]]

C24_WitnessEntry ==
    /\ schedOut # Null
    /\ schedOut.result.problemId # item.problemId
    /\ schedOut.result.stage # item.stage

-----------------------------------------------------------------------------
(* Properties of the target time *)

\* the target time of a category under the settings: their targetTimeSec
\* when they carry one, the default of the category otherwise
OverrideSec(settings, category) ==
    IF "targetTimeSec" \in DOMAIN settings THEN settings.targetTimeSec
    ELSE TargetSec(category)

RECURSIVE SumOverrideSec(_, _)
SumOverrideSec(settings, seq) ==
    IF seq = <<>> THEN 0
    ELSE OverrideSec(settings, seq[1].category) + SumOverrideSec(settings, Tail(seq))

SettingsRead == QuickPicked /\ "settings" \in DOMAIN pickOut

(* C25: the time estimate pickQuickSession accumulates and its threshold of  *)
(* a slow answer use the target time of the settings when the settings       *)
(* supply one: a returned question whose latest answer was correct was       *)
(* answered in more than that time, and the estimates of the questions       *)
(* before the last returned one stay under targetSeconds.                    *)
C25_SettingsTargetTime ==
    SettingsRead =>
        LET out == pickOut.result
            n   == Len(out)
            set == pickOut.settings
        IN  /\ \A i \in DOMAIN out :
                  (HasAttempt(out[i]) /\ latestAttempts[out[i].id].isCorrect) =>
                      latestAttempts[out[i].id].timeMs >
                          1000 * OverrideSec(set, out[i].category)
            /\ n > 1 => SumOverrideSec(set, SubSeq(out, 1, n - 1)) < targetSeconds

\* what the picker does use: the target time of the category, whatever the
\* settings say (50 s for a category CATEGORY_MAP does not know)
CategoryTargetTimeOnly ==
    SettingsRead =>
        /\ pickOut.result = pickQuickSession(targetSeconds, allProblems, latestAttempts, <<>>)
        /\ \A i \in DOMAIN pickOut.result :
              (HasAttempt(pickOut.result[i]) /\ latestAttempts[pickOut.result[i].id].isCorrect) =>
                  latestAttempts[pickOut.result[i].id].timeMs >
                      1000 * TargetSec(pickOut.result[i].category)
        /\ estimateSolveSeconds("unknown") = 50
        /\ targetTimeForCategory("unknown") = 50

\* a target time of 60 s is set, and a question answered correctly in 45 s,
\* over the 40 s of its category, is picked as slow
SettingsIgnored ==
    /\ SettingsRead
    /\ pickOut.settings.targetTimeSec = 60
    /\ \E i \in DOMAIN pickOut.result :
          /\ pickOut.result[i].category = "pie"
          /\ HasAttempt(pickOut.result[i])
          /\ latestAttempts[pickOut.result[i].id].isCorrect
          /\ latestAttempts[pickOut.result[i].id].timeMs = 45000

-----------------------------------------------------------------------------
(* Properties of the end of a test *)

\* what a finish of the test on the screen has to store: an attempt and a
\* schedule entry stamped now for every answered question, and a result that
\* counts the problems and the right answers
StoresTheTest ==
    /\ \A i \in DOMAIN test.answers :
          test.answers[i].selectedIndex # NoChoice =>
             /\ \E k \in DOMAIN attemptsTable' :
                   /\ attemptsTable'[k].problemId = test.problems[i].id
                   /\ attemptsTable'[k].answeredAt = toISOString(clock)
                   /\ attemptsTable'[k].isCorrect = test.answers[i].isCorrect
             /\ reviewRow(reviewQueue', test.problems[i].id) # Null
             /\ reviewRow(reviewQueue', test.problems[i].id) # reviewRow(reviewQueue, test.problems[i].id)
    /\ Len(testResults') = Len(testResults) + 1
    /\ testResults'[Len(testResults')].totalQuestions = Len(test.problems)
    /\ testResults'[Len(testResults')].correctCount =
          Cardinality({ i \in DOMAIN test.answers : test.answers[i].isCorrect })

\* the test is left for its result and the storage has rejected nothing
TestFinished ==
    /\ route = "test-session"
    /\ route' = "test-result"
    /\ dbFailed' = NoFailure

(* C26: when the countdown has expired and the user opens the results, the   *)
(* finish stores an attempt and a schedule update for every question         *)
(* answered before the expiry and a result with totalQuestions = the number  *)
(* of problems and correctCount = the number of right answers, as the finish *)
(* button does.                                                              *)
C26_TimeUpFinish ==
    [][(TestFinished /\ test.timeUpAlert) => StoresTheTest]_vars

\* the finish button does store the test
FinishButtonStoresTheTest ==
    [][(TestFinished /\ ~test.timeUpAlert) => StoresTheTest]_vars

\* a result of no question at all, stored while nothing was answered wrongly
\* or rightly in it: the result of a finish after the time was up
EmptyTestResult ==
    /\ route = "test-result"
    /\ testResults # <<>>
    /\ testResults[Len(testResults)].totalQuestions = 0
    /\ testResults[Len(testResults)].answers = <<>>

-----------------------------------------------------------------------------
(* Properties of useCountdownTimer *)

(* C27: onExpire is called at most once between two resets, however many     *)
(* ticks come after the elapsed time has reached durationMs; once expired,   *)
(* start() changes nothing until reset(); at most one interval is active at  *)
(* any time; remainingMs is never negative.                                  *)
C27_ExpireOnce ==
    /\ [](/\ test.countdown.onExpireCalls <= 1
          /\ Cardinality(test.countdown.intervals) <= 1
          /\ test.countdown.intervals \subseteq {test.countdown.intervalRef}
          /\ remainingMs(test.countdown) >= 0
          /\ test.countdown.onExpireCalls = 1 <=> test.countdown.expiredRef)
    /\ [][(test.countdown.expiredRef /\ CountdownStart) => UNCHANGED test]_vars
    /\ [][(test.countdown.expiredRef /\ test'.countdown.onExpireCalls > 0) =>
             test'.countdown.onExpireCalls = test.countdown.onExpireCalls]_vars

\* the interval has ticked twice and more after the time was up
C27_Witness ==
    /\ test.countdown.expiredRef
    /\ test.countdown.onExpireCalls = 1
    /\ test.countdown.intervals # {}
    /\ test.countdown.durationMs > 0
    /\ test.countdown.elapsedMs >= test.countdown.durationMs + 2 * TickMs

-----------------------------------------------------------------------------
(* Properties of the stored session *)

\* the stored rows of the session with this id
StoredRows(table, id) == { k \in DOMAIN table : table[k].id = id }

\* the table holds no row of the session and does not offer it for resume
NotStored(table, id) ==
    /\ StoredRows(table, id) = {}
    /\ (getActiveSession(table) = Null \/ getActiveSession(table).id # id)

(* C28: when the question screen is left through "保存せず戻る", no stored     *)
(* session state is left for its session and getActiveSession does not      *)
(* offer it, however many answers were confirmed.                            *)
C28_DiscardLeavesNoSession ==
    [][handleBackDiscard => NotStored(sessionTable', question.sessionId)]_vars

\* as long as no answer of the session is stored, a discard leaves no row
DiscardBeforeConfirm ==
    [][(handleBackDiscard /\ StoredRows(sessionTable, question.sessionId) = {}) =>
          NotStored(sessionTable', question.sessionId)]_vars

\* the last problem is left by handleNext and the storage has rejected nothing
LastProblemDone ==
    /\ handleNext
    /\ isLastProblem(question)
    /\ dbFailed' = NoFailure

(* C29: after handleNext on the last problem no stored session state is     *)
(* left for the session and getActiveSession no longer returns it, for a    *)
(* session entered through resume mode (the stored session the home screen  *)
(* offered) as for a session started afresh.                                *)
C29_FinishedSessionCleared ==
    [][LastProblemDone =>
          /\ NotStored(sessionTable', question.sessionId)
          /\ NotStored(sessionTable', home.activeSession.id)]_vars

\* the session started afresh (the home screen offered none) is cleared
FreshSessionCleared ==
    [][(LastProblemDone /\ home.activeSession = Null) =>
          NotStored(sessionTable', question.sessionId)]_vars

\* back on the home screen with the resumed session worked to its end, its
\* row is still the one offered
ResumedSessionStillOffered ==
    /\ route = "tabs"
    /\ question = QuestionUnmounted
    /\ Len(attemptsTable) > 0
    /\ Len(sessionTable) = 1
    /\ getActiveSession(sessionTable).id = PriorTime

-----------------------------------------------------------------------------
(* Properties of the lists the pickers return *)

CatalogIds == { allProblems[i].id : i \in DOMAIN allProblems }

\* the arguments without the entries whose id is the id of no catalog question
KnownAttempts ==
    [id \in DOMAIN latestAttempts \cap CatalogIds |-> latestAttempts[id]]

KnownDue == SelectSeq(dueReviews, LAMBDA r : r.problemId \in CatalogIds)

ForeignIds ==
    (DOMAIN latestAttempts \cup { dueReviews[i].problemId : i \in DOMAIN dueReviews })
        \ CatalogIds

(* C30: the list each of the four pickers returns holds elements of          *)
(* allProblems only, each at most once; an entry of dueReviews or of         *)
(* latestAttempts whose id is the id of no catalog question changes nothing  *)
(* in it; the review, speed and weakness lists are no longer than their      *)
(* count limit.                                                              *)
C30_OutputsFromCatalog ==
    (pickOut # Null /\ ~RecCalled) =>
        LET out == pickOut.result
        IN  /\ \A i \in DOMAIN out : out[i] \in Range(allProblems)
            /\ \A i, j \in DOMAIN out : i # j => out[i].id # out[j].id
            /\ QuickPicked =>
                  out = pickQuickSession(targetSeconds, allProblems, KnownAttempts, KnownDue)
            /\ ReviewPicked =>
                  /\ Len(out) <= pickOut.maxCount
                  /\ out = pickReviewSession(allProblems, KnownAttempts, KnownDue,
                                            pickOut.maxCount)
            /\ SpeedPicked =>
                  /\ Len(out) <= pickOut.maxCount
                  /\ out = pickSpeedSession(allProblems, KnownAttempts, pickOut.maxCount)
            /\ WeakPicked =>
                  /\ Len(out) <= pickOut.count
                  /\ out = pickWeaknessTest(allProblems, KnownAttempts, pickOut.count)

\* a review session cut to one question while two qualify, with a due entry
\* and an attempt of a question that is not in the catalog
C30_Witness ==
    /\ ReviewPicked
    /\ pickOut.maxCount = 1
    /\ Len(pickOut.result) = 1
    /\ Cardinality({ p \in Range(allProblems) : IsReviewCandidate(p) }) >= 2
    /\ \E id \in ForeignIds :
          /\ id \in DOMAIN latestAttempts
          /\ \E i \in DOMAIN dueReviews : dueReviews[i].problemId = id

====
